---- MODULE Spec2Model ----
(***************************************************************************)
(* Notification dispatch service: the send protocol of                    *)
(* NotificationService._send_notification with its retry state machine,   *)
(* the realtime ConnectionManager it consults, and the preference          *)
(* resolver NotificationService._should_send_notification, the event       *)
(* orchestrator NotificationService.process_event and the queue consumer   *)
(* callback process_notification_event.                                    *)
(***************************************************************************)
EXTENDS Integers, FiniteSets, Sequences, TLC

\* ------------------------------------------------------------------ bounds
MaxTicks == 4
MaxSockets == 2
MaxQueue == 2
MaxTemplateLen == 3
MaxDataLen == 3
MaxKeyLen == 3
MaxUserId == 2
MaxCalls == 3
MaxWorkers == 2
MaxRequests == 3

\* ------------------------------------------------------- program constants
RETRY_DELAY_SECONDS == 60
DEFAULT_MAX_RETRIES == 3

NULL == "null"
\* a nullable DateTime column holding no value
NoTime == -1

EMAIL == "email"
PUSH == "push"
NotificationType == {EMAIL, PUSH}

PENDING == "pending"
SENT == "sent"
FAILED == "failed"
RETRYING == "retrying"
NotificationStatus == {PENDING, SENT, FAILED, RETRYING}

\* ------------------------------------------------------------ environment
Users == {"u1", "u2"}
Sockets == 1..MaxSockets
NoSocket == 0
NoUser == "nobody"
NotifUser == "u1"

\* event.data as handed to _create_notification: empty or one key
EmptyData == [parking_name |-> NULL, sent_via |-> NULL]
SampleData == [parking_name |-> "Lot1", sent_via |-> NULL]

\* str(e) of the exceptions the send protocol can see
SetChangedError == "Set changed size during iteration"
KeyErrorDetail == "KeyError"
CommitError == "commit failed"

EventTypes == {"RESERVATION_CONFIRMED", "PAYMENT_SUCCESS"}

VARIABLES
    notification,        \* the Notification object handed to _send_notification
    now,                 \* datetime.utcnow()
    active_connections,  \* ConnectionManager.active_connections: user -> set
    handler,             \* websocket -> user of its running endpoint handler
    pc,                  \* position of the orchestrator in _send_notification
    success,             \* local of _send_notification
    sent_via_websocket,  \* local of _send_notification
    frame,               \* locals of ConnectionManager.send_notification
    attempt,             \* what the current/last send attempt has called
    history,             \* counts over the notification's whole life
    preferences,         \* input of _should_send_notification
    template,            \* input of _should_send_notification
    event_type,          \* input of _should_send_notification
    should_send,         \* result of _should_send_notification
    message,             \* the delivery handed to the consumer callback
    cpc,                 \* position of process_notification_event
    dispositions,        \* basic_ack / basic_reject / basic_nack calls made
    event,               \* the NotificationEvent built at line 113
    template_table,      \* rows of notification_templates, by event_type
    ppc,                 \* position of process_event
    templates,           \* templates the loop of line 44 still has to visit
    notifications_to_send, \* local list of process_event (the rows created)
    send_idx,            \* position of the loop of line 93
    caught,              \* exception caught at line 96 of process_event
    delivery,            \* channels a delivery was attempted on
    committed,           \* status of each created row as last committed
    queue,               \* broker: messages ready for delivery
    in_flight,           \* broker: messages delivered and not yet settled
    bframe,              \* locals of ConnectionManager.broadcast
    render_call,         \* a call of _replace_placeholders and its result
    routing_call,        \* calls of map_routing_key_to_event_type
    auth_log,            \* results of transform_auth_event, in call order
    notification_templates,        \* table: the rows' (event_type, channel)
    user_notification_preferences, \* table: the rows, in insertion order
    request,             \* API requests between their query and commit
    response             \* the latest response and how many were given

sendVars == <<notification, now, active_connections, handler, pc, success,
              sent_via_websocket, frame, attempt, history>>
prefVars == <<preferences, template, event_type, should_send>>
eventVars == <<message, cpc, dispositions, event, template_table, ppc,
               templates, notifications_to_send, send_idx, caught, delivery>>
brokerVars == <<committed, queue, in_flight>>
pureVars == <<render_call, routing_call, auth_log>>
apiVars == <<notification_templates, user_notification_preferences, request,
             response>>
vars == <<notification, now, active_connections, handler, pc, success,
          sent_via_websocket, frame, attempt, history,
          preferences, template, event_type, should_send,
          message, cpc, dispositions, event, template_table, ppc,
          templates, notifications_to_send, send_idx, caught, delivery,
          committed, queue, in_flight, bframe,
          render_call, routing_call, auth_log,
          notification_templates, user_notification_preferences, request,
          response>>

\* =================================================== Notification entity
\* Column defaults of the Notification row as _create_notification leaves it
NewNotification(ntype, data) ==
    [ user_id |-> NotifUser,
      notification_type |-> ntype,
      status |-> PENDING,
      recipient_email |-> IF ntype = EMAIL THEN "a@b.com" ELSE NULL,
      recipient_fcm_token |-> IF ntype = PUSH THEN "fcm-token-123" ELSE NULL,
      data |-> data,
      retry_count |-> 0,
      max_retries |-> DEFAULT_MAX_RETRIES,
      next_retry_at |-> NoTime,
      error_message |-> NULL,
      sent_at |-> NoTime ]

\* "not notification.data": None or an empty dict
DataIsEmpty(d) == d.parking_name = NULL /\ d.sent_via = NULL

\* MarkSent without line 272 (sent_at is not stamped)
MarkSent_no_sent_at(n, via_ws, t) ==
    [n EXCEPT !.status = SENT,
              !.data = [(IF DataIsEmpty(n.data) THEN EmptyData ELSE n.data)
                          EXCEPT !.sent_via =
                              IF via_ws THEN "websocket"
                                        ELSE n.notification_type]]

\* lines 270-277: the success branch of the status update
MarkSent(n, via_ws, t) ==
    [n EXCEPT !.status = SENT,
              !.sent_at = t,
              !.data = [(IF DataIsEmpty(n.data) THEN EmptyData ELSE n.data)
                          EXCEPT !.sent_via =
                              IF via_ws THEN "websocket"
                                        ELSE n.notification_type]]

\* handle_failed_notification without line 298 (status stays as it was
\* while retries remain)
handle_failed_notification_keeps_status(n, error_message, t) ==
    LET rc == n.retry_count + 1
        n1 == [n EXCEPT !.retry_count = rc]
        n2 == IF rc < n.max_retries
                THEN [n1 EXCEPT !.next_retry_at = t + RETRY_DELAY_SECONDS * rc]
                ELSE [n1 EXCEPT !.status = FAILED]
    IN  IF error_message # NULL /\ error_message # ""
          THEN [n2 EXCEPT !.error_message = error_message]
          ELSE n2

\* handle_failed_notification with the delay of lines 299-301 computed from
\* the retry_count before its increment
handle_failed_notification_old_count(n, error_message, t) ==
    LET rc == n.retry_count + 1
        n1 == [n EXCEPT !.retry_count = rc]
        n2 == IF rc < n.max_retries
                THEN [n1 EXCEPT !.status = RETRYING,
                                !.next_retry_at =
                                   t + RETRY_DELAY_SECONDS * n.retry_count]
                ELSE [n1 EXCEPT !.status = FAILED]
    IN  IF error_message # NULL /\ error_message # ""
          THEN [n2 EXCEPT !.error_message = error_message]
          ELSE n2

\* lines 288-315
handle_failed_notification(n, error_message, t) ==
    LET rc == n.retry_count + 1
        n1 == [n EXCEPT !.retry_count = rc]
        n2 == IF rc < n.max_retries
                THEN [n1 EXCEPT !.status = RETRYING,
                                !.next_retry_at = t + RETRY_DELAY_SECONDS * rc]
                ELSE [n1 EXCEPT !.status = FAILED]
    IN  IF error_message # NULL /\ error_message # ""
          THEN [n2 EXCEPT !.error_message = error_message]
          ELSE n2

\* ================================================== ConnectionManager
is_user_connected(ac, u) ==
    u \in DOMAIN ac /\ Cardinality(ac[u]) > 0

\* self.active_connections[user_id].discard(ws); del when the set is empty
RemoveConnections(ac, u, gone) ==
    IF ac[u] \ gone = {}
      THEN [x \in (DOMAIN ac) \ {u} |-> ac[x]]
      ELSE [ac EXCEPT ![u] = @ \ gone]

\* broadcast is not running
NoBroadcast ==
    [ running |-> FALSE, user_id |-> NoUser, websocket |-> NoSocket,
      attached |-> FALSE, conn_size |-> 0, conn_visited |-> {},
      disconnected |-> {}, dict_size |-> 0, users_visited |-> {},
      disconnected_users |-> << >>, error |-> "none" ]

\* the set object `connections` that broadcast iterates (line 123) stops
\* being the registered one when the user's entry is deleted
Detach(bf, ac) ==
    IF bf.running /\ bf.user_id \notin DOMAIN ac
      THEN [bf EXCEPT !.attached = FALSE]
      ELSE bf

NoFrame ==
    [ websocket |-> NoSocket, sent_count |-> 0, disconnected |-> {},
      iter_size |-> 0, iter_visited |-> {}, iter_attached |-> FALSE ]

\* the set object the for-loop iterates: the user's registered set while it
\* is still the registered object, empty once the entry was deleted
IteratedSet ==
    IF frame.iter_attached /\ NotifUser \in DOMAIN active_connections
      THEN active_connections[NotifUser]
      ELSE {}

Iterating == pc = "ws_await"

NoAttempt ==
    [ realtime |-> "none", push_invoked |-> FALSE, email_invoked |-> FALSE,
      transport |-> "none", handled |-> 0, wrote_sent_via |-> FALSE,
      escaped |-> FALSE ]

\* ------------------------------------------------------------- connect
\* endpoints.py line 36 -> ConnectionManager.connect (after accept)
connect(websocket, user_id) ==
    /\ handler[websocket] = NoUser
    /\ handler' = [handler EXCEPT ![websocket] = user_id]
    /\ active_connections' =
         IF user_id \notin DOMAIN active_connections
           THEN active_connections @@ (user_id :> {websocket})
           ELSE [active_connections EXCEPT ![user_id] = @ \cup {websocket}]
    /\ UNCHANGED <<notification, now, pc, success, sent_via_websocket,
                   frame, attempt, history>>
    /\ UNCHANGED prefVars
    /\ UNCHANGED <<eventVars, brokerVars, pureVars, apiVars>>
    /\ UNCHANGED bframe

\* disconnect with lines 50-55 left out
disconnect_registry_keeps(ac, websocket, user_id) == ac

\* ---------------------------------------------------------- disconnect
disconnect_registry(ac, websocket, user_id) ==
    IF user_id \in DOMAIN ac
      THEN RemoveConnections(ac, user_id, {websocket})
      ELSE ac

\* endpoints.py lines 74-80: the handler of the websocket ends
disconnect(websocket) ==
    /\ handler[websocket] # NoUser
    /\ LET user_id == handler[websocket]
           ac == disconnect_registry(active_connections, websocket, user_id)
       IN  /\ active_connections' = ac
           /\ frame' = IF Iterating /\ user_id = NotifUser
                          /\ NotifUser \notin DOMAIN ac
                         THEN [frame EXCEPT !.iter_attached = FALSE]
                         ELSE frame
    /\ handler' = [handler EXCEPT ![websocket] = NoUser]
    /\ UNCHANGED <<notification, now, pc, success, sent_via_websocket,
                   attempt, history>>
    /\ UNCHANGED prefVars
    /\ UNCHANGED <<eventVars, brokerVars, pureVars, apiVars>>
    /\ bframe' = Detach(bframe, active_connections')

\* ------------------------------------------------------------ broadcast
DictChangedError == "dictionary changed size during iteration"

\* every order in which the users of S can be met
Orders(S) ==
    {s \in [1..Cardinality(S) -> S] : \A i, j \in DOMAIN s : i # j => s[i] # s[j]}

\* the set object bound to `connections` at line 120
BroadcastSet ==
    IF bframe.attached /\ bframe.user_id \in DOMAIN active_connections
      THEN active_connections[bframe.user_id]
      ELSE {}

\* line 125 returned or raised for bframe.websocket; lines 126-128
AfterBroadcastSend(ok) ==
    [bframe EXCEPT !.disconnected = IF ok THEN @ ELSE @ \cup {bframe.websocket},
                   !.conn_visited = @ \cup {bframe.websocket}]

\* the iterators of lines 123 and 120 compare the size they started with
BroadcastSetChanged == Cardinality(BroadcastSet) # bframe.conn_size
DictChanged == Cardinality(DOMAIN active_connections) # bframe.dict_size

\* the inner loop of line 123 is over for the current user
InnerLoopOver(ok) ==
    /\ bframe.running
    /\ ~BroadcastSetChanged
    /\ BroadcastSet \ AfterBroadcastSend(ok).conn_visited = {}

\* lines 131-132: connections.discard(ws); the user's entry stays in the dict
BroadcastCleanup(ok) ==
    IF bframe.attached /\ bframe.user_id \in DOMAIN active_connections
      THEN [active_connections EXCEPT
              ![bframe.user_id] = @ \ AfterBroadcastSend(ok).disconnected]
      ELSE active_connections

\* lines 135-136: "if not connections: disconnected_users.append(user_id)"
MarkedUsers(ok) ==
    IF BroadcastSet \ AfterBroadcastSend(ok).disconnected = {}
      THEN Append(bframe.disconnected_users, bframe.user_id)
      ELSE bframe.disconnected_users

\* users the loop of line 120 has not met yet
UsersAhead == (DOMAIN active_connections) \ (bframe.users_visited \cup {bframe.user_id})

\* lines 139-140: "del self.active_connections[user_id]" for each marked
\* user, KeyError at the first one whose entry is gone
RECURSIVE DeleteMarked(_, _)
DeleteMarked(ac, marked) ==
    IF marked = << >>
      THEN [ac |-> ac, error |-> "none"]
      ELSE IF Head(marked) \notin DOMAIN ac
             THEN [ac |-> ac, error |-> KeyErrorDetail]
             ELSE DeleteMarked([x \in (DOMAIN ac) \ {Head(marked)} |-> ac[x]],
                               Tail(marked))

\* broadcast leaves the registry ac behind: a send_notification that is
\* iterating a deleted entry's set keeps the detached object
BroadcastLeaves(ac, error) ==
    /\ active_connections' = ac
    /\ bframe' = [NoBroadcast EXCEPT !.error = error]
    /\ frame' = IF Iterating /\ NotifUser \notin DOMAIN ac
                  THEN [frame EXCEPT !.iter_attached = FALSE]
                  ELSE frame
    /\ UNCHANGED <<notification, now, handler, pc, success,
                   sent_via_websocket, attempt, history>>
    /\ UNCHANGED prefVars
    /\ UNCHANGED <<eventVars, brokerVars, pureVars, apiVars>>

\* broadcast goes on: suspended at line 125 for websocket w of user u
BroadcastAwaits(bf, ac) ==
    /\ bframe' = bf
    /\ active_connections' = ac
    /\ UNCHANGED <<notification, now, handler, pc, success,
                   sent_via_websocket, frame, attempt, history>>
    /\ UNCHANGED prefVars
    /\ UNCHANGED <<eventVars, brokerVars, pureVars, apiVars>>

\* lines 118-125: broadcast is called and reaches its first await; entries
\* met before it with an empty set are marked without any send. The dict
\* is met in insertion order, which the registry does not record: any order.
BroadcastStart ==
    /\ ~bframe.running
    /\ \E u \in DOMAIN active_connections :
         /\ active_connections[u] # {}
         /\ \E S \in SUBSET {x \in DOMAIN active_connections :
                                active_connections[x] = {}} :
              \E marked \in Orders(S), w \in active_connections[u] :
                 BroadcastAwaits(
                   [ running |-> TRUE, user_id |-> u, websocket |-> w,
                     attached |-> TRUE,
                     conn_size |-> Cardinality(active_connections[u]),
                     conn_visited |-> {}, disconnected |-> {},
                     dict_size |-> Cardinality(DOMAIN active_connections),
                     users_visited |-> S, disconnected_users |-> marked,
                     error |-> "none" ],
                   active_connections)

\* lines 118-142 when no entry has a connection: no send is awaited, every
\* (empty) entry is marked and deleted
BroadcastNoAwait ==
    /\ ~bframe.running
    /\ \A u \in DOMAIN active_connections : active_connections[u] = {}
    /\ BroadcastLeaves(<< >>, "none")

\* line 123: the loop goes on with another websocket of the same user
BroadcastNextSocket(ok) ==
    /\ bframe.running
    /\ ~BroadcastSetChanged
    /\ \E w \in BroadcastSet \ AfterBroadcastSend(ok).conn_visited :
          BroadcastAwaits([AfterBroadcastSend(ok) EXCEPT !.websocket = w],
                          active_connections)

\* lines 131-136 for the current user, then line 120 moves to a user that
\* has connections
BroadcastNextUser(ok) ==
    /\ InnerLoopOver(ok)
    /\ ~DictChanged
    /\ LET ac == BroadcastCleanup(ok)
       IN  \E u \in UsersAhead :
             /\ ac[u] # {}
             /\ \E S \in SUBSET {x \in UsersAhead : ac[x] = {}} :
                  \E marked \in Orders(S), w \in ac[u] :
                     BroadcastAwaits(
                       [ running |-> TRUE, user_id |-> u, websocket |-> w,
                         attached |-> TRUE,
                         conn_size |-> Cardinality(ac[u]),
                         conn_visited |-> {}, disconnected |-> {},
                         dict_size |-> bframe.dict_size,
                         users_visited |->
                            bframe.users_visited \cup {bframe.user_id} \cup S,
                         disconnected_users |-> MarkedUsers(ok) \o marked,
                         error |-> "none" ],
                       ac)

\* lines 131-142: the outer loop is over; the marked users are deleted
BroadcastDone(ok) ==
    /\ InnerLoopOver(ok)
    /\ ~DictChanged
    /\ LET ac == BroadcastCleanup(ok)
       IN  /\ \A u \in UsersAhead : ac[u] = {}
           /\ \E marked \in Orders(UsersAhead) :
                LET res == DeleteMarked(ac, MarkedUsers(ok) \o marked)
                IN  BroadcastLeaves(res.ac, res.error)

\* line 123 or line 120 raises RuntimeError: the set or the dict changed
\* size during an await; broadcast has no handler for it, lines 139-140 are
\* never reached
BroadcastRaises(ok) ==
    /\ bframe.running
    /\ IF BroadcastSetChanged
         THEN BroadcastLeaves(active_connections, SetChangedError)
         ELSE /\ InnerLoopOver(ok)
              /\ DictChanged
              /\ BroadcastLeaves(BroadcastCleanup(ok), DictChangedError)

\* ---------------------------------------------------------------- clock
Tick ==
    /\ now < MaxTicks * RETRY_DELAY_SECONDS
    /\ now' = now + RETRY_DELAY_SECONDS
    /\ UNCHANGED <<notification, active_connections, handler, pc, success,
                   sent_via_websocket, frame, attempt, history>>
    /\ UNCHANGED prefVars
    /\ UNCHANGED <<eventVars, brokerVars, pureVars, apiVars>>
    /\ UNCHANGED bframe

\* ===================================================== _send_notification
\* lines 269-279: the status update that follows the transport's result
StatusUpdate(ok, via_ws, att, hist) ==
    /\ success' = ok
    /\ sent_via_websocket' = via_ws
    /\ pc' = "commit"
    /\ IF ok
         THEN /\ notification' = MarkSent(notification, via_ws, now)
              /\ attempt' = [att EXCEPT !.transport = "ok",
                                        !.wrote_sent_via = TRUE]
              /\ history' = hist
         ELSE /\ notification' = handle_failed_notification(notification, NULL, now)
              /\ attempt' = [att EXCEPT !.transport = "failed",
                                        !.handled = @ + 1]
              /\ history' = [hist EXCEPT !.handled = @ + 1,
                                         !.failed_attempts = @ + 1]

\* line 242 without "not sent_via_websocket"
NeedsPushFallback_ignores_websocket(via_ws, fcm_token) ==
    fcm_token # NULL

\* line 242: "if not sent_via_websocket and notification.recipient_fcm_token"
NeedsPushFallback(via_ws, fcm_token) ==
    ~via_ws /\ fcm_token # NULL

\* lines 234-253, once the realtime path is over (via_ws is its result, FALSE
\* when it was not tried): call the push-token sender or go to the update
AfterRealtime(via_ws, att, hist) ==
    IF NeedsPushFallback(via_ws, notification.recipient_fcm_token)
      THEN /\ pc' = "push_await"
           /\ success' = via_ws
           /\ sent_via_websocket' = via_ws
           /\ attempt' = [att EXCEPT !.push_invoked = TRUE]
           /\ history' = hist
           /\ UNCHANGED notification
      ELSE StatusUpdate(via_ws, via_ws, att, hist)

\* lines 283-285: an exception raised inside the try block by a transport
ExceptInTransport(err, att) ==
    /\ notification' = handle_failed_notification(notification, err, now)
    /\ attempt' = [att EXCEPT !.transport = "raised", !.handled = @ + 1]
    /\ history' = [history EXCEPT !.handled = @ + 1,
                                  !.failed_attempts = @ + 1]
    /\ pc' = "commit_exc"

\* lines 207-267 up to the first transport call
EnterSend ==
    /\ pc = "idle"
    /\ IF notification.notification_type = PUSH
         THEN IF is_user_connected(active_connections, notification.user_id)
                THEN \E w \in active_connections[notification.user_id] :
                       /\ frame' = [ websocket |-> w, sent_count |-> 0,
                                     disconnected |-> {},
                                     iter_size |-> Cardinality(
                                       active_connections[notification.user_id]),
                                     iter_visited |-> {},
                                     iter_attached |-> TRUE ]
                       /\ pc' = "ws_await"
                       /\ attempt' = [NoAttempt EXCEPT !.realtime = "called"]
                       /\ success' = FALSE
                       /\ sent_via_websocket' = FALSE
                       /\ history' = [history EXCEPT !.attempts = @ + 1]
                       /\ UNCHANGED notification
                ELSE /\ AfterRealtime(FALSE, NoAttempt,
                                      [history EXCEPT !.attempts = @ + 1])
                     /\ UNCHANGED frame
         ELSE /\ pc' = "email_await"
              /\ history' = [history EXCEPT !.attempts = @ + 1]
              /\ attempt' = [NoAttempt EXCEPT !.email_invoked = TRUE]
              /\ success' = FALSE
              /\ sent_via_websocket' = FALSE
              /\ UNCHANGED <<notification, frame>>
    /\ UNCHANGED <<now, active_connections, handler>>
    /\ UNCHANGED prefVars
    /\ UNCHANGED <<eventVars, brokerVars, pureVars, apiVars>>
    /\ UNCHANGED bframe

\* process_event lines 93-94: first attempt, right after creation
StartSend ==
    /\ notification.status = PENDING
    /\ history.attempts = 0
    /\ EnterSend

\* the external retry poller re-invokes the send protocol (spec 4.4)
PollerResend ==
    /\ notification.status = RETRYING
    /\ now >= notification.next_retry_at
    /\ EnterSend

\* ---------------------------------- ConnectionManager.send_notification
\* line 94 returned or raised for frame.websocket; lines 95-99 account it
AfterSendJson(ok) ==
    [frame EXCEPT !.sent_count = IF ok THEN @ + 1 ELSE @,
                  !.disconnected = IF ok THEN @ ELSE @ \cup {frame.websocket},
                  !.iter_visited = @ \cup {frame.websocket}]

\* the for-loop of line 92 asks the set iterator for its next element
SetSizeChanged == Cardinality(IteratedSet) # frame.iter_size

\* line 92: the loop goes on with another websocket of the set
WsSendNext(ok) ==
    /\ pc = "ws_await"
    /\ ~SetSizeChanged
    /\ LET f == AfterSendJson(ok)
       IN  \E w \in IteratedSet \ f.iter_visited :
              frame' = [f EXCEPT !.websocket = w]
    /\ UNCHANGED <<notification, now, active_connections, handler, pc,
                   success, sent_via_websocket, attempt, history>>
    /\ UNCHANGED prefVars
    /\ UNCHANGED <<eventVars, brokerVars, pureVars, apiVars>>
    /\ UNCHANGED bframe

\* line 92 raises RuntimeError (the set changed size during the await), or
\* lines 103/106 raise KeyError (the user's entry is gone); the exception
\* leaves send_notification and lands in _send_notification's except block
WsSendRaises(ok) ==
    /\ pc = "ws_await"
    /\ LET f == AfterSendJson(ok)
           entry_gone == /\ IteratedSet \ f.iter_visited = {}
                         /\ NotifUser \notin DOMAIN active_connections
       IN  /\ SetSizeChanged \/ entry_gone
           /\ ExceptInTransport(
                IF SetSizeChanged THEN SetChangedError ELSE KeyErrorDetail,
                [attempt EXCEPT !.realtime = "raised"])
    /\ frame' = NoFrame
    /\ UNCHANGED <<now, active_connections, handler, success,
                   sent_via_websocket>>
    /\ UNCHANGED prefVars
    /\ UNCHANGED <<eventVars, brokerVars, pureVars, apiVars>>
    /\ UNCHANGED bframe

\* lines 101-109: the loop is over; failed connections are removed and the
\* result is sent_count > 0; then _send_notification lines 234-253
WsSendDone(ok) ==
    /\ pc = "ws_await"
    /\ ~SetSizeChanged
    /\ LET f == AfterSendJson(ok)
           result == f.sent_count > 0
       IN  /\ IteratedSet \ f.iter_visited = {}
           /\ NotifUser \in DOMAIN active_connections
           /\ active_connections' =
                RemoveConnections(active_connections, NotifUser, f.disconnected)
           /\ AfterRealtime(result,
                [attempt EXCEPT !.realtime = IF result THEN "true" ELSE "false"],
                history)
    /\ frame' = NoFrame
    /\ UNCHANGED <<now, handler>>
    /\ UNCHANGED prefVars
    /\ UNCHANGED <<eventVars, brokerVars, pureVars, apiVars>>
    /\ bframe' = Detach(bframe, active_connections')

\* line 243: push_service.send_push_notification returned ok
PushReturns(ok) ==
    /\ pc = "push_await"
    /\ StatusUpdate(ok, sent_via_websocket, attempt, history)
    /\ UNCHANGED <<now, active_connections, handler, frame>>
    /\ UNCHANGED prefVars
    /\ UNCHANGED <<eventVars, brokerVars, pureVars, apiVars>>
    /\ UNCHANGED bframe

\* line 262: email_service.send_email returned ok
EmailReturns(ok) ==
    /\ pc = "email_await"
    /\ StatusUpdate(ok, sent_via_websocket, attempt, history)
    /\ UNCHANGED <<now, active_connections, handler, frame>>
    /\ UNCHANGED prefVars
    /\ UNCHANGED <<eventVars, brokerVars, pureVars, apiVars>>
    /\ UNCHANGED bframe

\* line 281 or line 286: db.commit() returns
CommitOk ==
    /\ pc \in {"commit", "commit_exc"}
    /\ pc' = "idle"
    /\ UNCHANGED <<notification, now, active_connections, handler, success,
                   sent_via_websocket, frame, attempt, history>>
    /\ UNCHANGED prefVars
    /\ UNCHANGED <<eventVars, brokerVars, pureVars, apiVars>>
    /\ UNCHANGED bframe

\* line 281 raises: the except block of lines 283-286 handles it
CommitRaises ==
    /\ pc = "commit"
    /\ notification' = handle_failed_notification(notification, CommitError, now)
    /\ attempt' = [attempt EXCEPT !.handled = @ + 1]
    /\ history' = [history EXCEPT !.handled = @ + 1]
    /\ pc' = "commit_exc"
    /\ UNCHANGED <<now, active_connections, handler, success,
                   sent_via_websocket, frame>>
    /\ UNCHANGED prefVars
    /\ UNCHANGED <<eventVars, brokerVars, pureVars, apiVars>>
    /\ UNCHANGED bframe

\* line 286 raises: the exception leaves _send_notification and is caught by
\* process_event (lines 96-97)
CommitRaisesAgain ==
    /\ pc = "commit_exc"
    /\ pc' = "idle"
    /\ attempt' = [attempt EXCEPT !.escaped = TRUE]
    /\ UNCHANGED <<notification, now, active_connections, handler, success,
                   sent_via_websocket, frame, history>>
    /\ UNCHANGED prefVars
    /\ UNCHANGED <<eventVars, brokerVars, pureVars, apiVars>>
    /\ UNCHANGED bframe

\* ============================================== _should_send_notification
\* a channel map of event_preferences: channel name -> boolean, any subset
ChannelMaps == UNION {[D -> BOOLEAN] : D \in SUBSET NotificationType}
\* event_preferences: event type -> channel map, for any subset of the types
EventPreferences == UNION {[D -> ChannelMaps] : D \in SUBSET EventTypes}

NoPreferences ==
    [ exists |-> FALSE, email_enabled |-> 1, push_enabled |-> 1,
      fcm_token |-> NULL, event_preferences |-> << >> ]

PreferenceRecords ==
    [ exists : {TRUE}, email_enabled : {0, 1}, push_enabled : {0, 1},
      fcm_token : {NULL, "fcm-token-prefs"},
      event_preferences : EventPreferences ]

\* should_send_notification with line 126 returning False (default-deny)
should_send_notification_default_deny(prefs, tmpl_type, ev) ==
    IF ~prefs.exists THEN FALSE
    ELSE IF tmpl_type = EMAIL /\ prefs.email_enabled = 0 THEN FALSE
    ELSE IF tmpl_type = PUSH /\ prefs.push_enabled = 0 THEN FALSE
    ELSE IF /\ DOMAIN prefs.event_preferences # {}
            /\ ev \in DOMAIN prefs.event_preferences
            /\ tmpl_type \in DOMAIN prefs.event_preferences[ev]
           THEN prefs.event_preferences[ev][tmpl_type]
    ELSE TRUE

\* should_send_notification without lines 131-132 (push_enabled is not read)
should_send_notification_no_push_flag(prefs, tmpl_type, ev) ==
    IF ~prefs.exists THEN TRUE
    ELSE IF tmpl_type = EMAIL /\ prefs.email_enabled = 0 THEN FALSE
    ELSE IF /\ DOMAIN prefs.event_preferences # {}
            /\ ev \in DOMAIN prefs.event_preferences
            /\ tmpl_type \in DOMAIN prefs.event_preferences[ev]
           THEN prefs.event_preferences[ev][tmpl_type]
    ELSE TRUE

\* should_send_notification without lines 135-139 (overrides are not read)
should_send_notification_no_override(prefs, tmpl_type, ev) ==
    IF ~prefs.exists THEN TRUE
    ELSE IF tmpl_type = EMAIL /\ prefs.email_enabled = 0 THEN FALSE
    ELSE IF tmpl_type = PUSH /\ prefs.push_enabled = 0 THEN FALSE
    ELSE TRUE

\* lines 118-141
should_send_notification(prefs, tmpl_type, ev) ==
    IF ~prefs.exists THEN TRUE
    ELSE IF tmpl_type = EMAIL /\ prefs.email_enabled = 0 THEN FALSE
    ELSE IF tmpl_type = PUSH /\ prefs.push_enabled = 0 THEN FALSE
    ELSE IF /\ DOMAIN prefs.event_preferences # {}
            /\ ev \in DOMAIN prefs.event_preferences
            /\ tmpl_type \in DOMAIN prefs.event_preferences[ev]
           THEN prefs.event_preferences[ev][tmpl_type]
    ELSE TRUE

NotAsked == [asked |-> FALSE, result |-> FALSE]

\* process_event line 46: the resolver is asked for one template
ShouldSend ==
    /\ ~should_send.asked
    /\ should_send' =
         [asked |-> TRUE,
          result |-> should_send_notification(preferences, template, event_type)]
    /\ UNCHANGED <<preferences, template, event_type>>
    /\ UNCHANGED sendVars
    /\ UNCHANGED <<eventVars, brokerVars, pureVars, apiVars>>
    /\ UNCHANGED bframe

\* ============================================================ process_event
\* Python truthiness of an Optional[str]: None and "" are falsy
Truthy(s) == s # NULL /\ s # ""

\* notification_templates: event_type is a unique column (models line 71),
\* so the table holds at most one row per event type
TemplateRows ==
    [ notification_type : {EMAIL}, subject_template : {NULL, "subject"},
      title_template : {NULL}, is_active : {0, 1} ]
    \cup
    [ notification_type : {PUSH}, subject_template : {NULL},
      title_template : {NULL, "title"}, is_active : {0, 1} ]

OtherEventRow ==
    [ notification_type |-> PUSH, subject_template |-> NULL,
      title_template |-> "title", is_active |-> 1 ]

TemplateTables ==
    { t \in UNION {[D -> TemplateRows] : D \in SUBSET EventTypes} :
        "PAYMENT_SUCCESS" \in DOMAIN t => t["PAYMENT_SUCCESS"] = OtherEventRow }

\* lines 111-116: the active templates of one event type
get_templates(table, ev) ==
    IF ev \in DOMAIN table /\ table[ev].is_active = 1
      THEN << table[ev] >>
      ELSE << >>

\* lines 143-156: the keys of the rendered dict
render_template(t) ==
    {"body"}
      \cup (IF Truthy(t.subject_template) THEN {"subject"} ELSE {})
      \cup (IF Truthy(t.title_template) THEN {"title"} ELSE {})

\* line 58 with the test dropped
HasRecipientEmail_unchecked(ev) == TRUE

\* line 58: "if event.user_email"
HasRecipientEmail(ev) == Truthy(ev.user_email)

\* line 75 with the two sources swapped
resolve_fcm_token_prefs_first(ev, prefs) ==
    IF prefs.exists /\ Truthy(prefs.fcm_token) THEN prefs.fcm_token
    ELSE ev.fcm_token

\* line 75: event.fcm_token or (preferences.fcm_token if preferences else None)
resolve_fcm_token(ev, prefs) ==
    IF Truthy(ev.fcm_token) THEN ev.fcm_token
    ELSE IF prefs.exists THEN prefs.fcm_token
    ELSE NULL

\* lines 166-197: the row _create_notification adds
create_notification(ev, ntype, recipient_email, recipient_fcm_token) ==
    [NewNotification(ntype, EmptyData)
       EXCEPT !.user_id = ev.user_id,
              !.recipient_email = recipient_email,
              !.recipient_fcm_token = recipient_fcm_token]

StorageError == "OperationalError"

\* line 36; a failing query raises into the except of line 96
GetUserPreferences(db_ok) ==
    /\ ppc = "get_preferences"
    /\ IF db_ok
         THEN ppc' = "get_templates" /\ UNCHANGED caught
         ELSE ppc' = "returned" /\ caught' = StorageError
    /\ UNCHANGED <<message, cpc, dispositions, event, template_table,
                   templates, notifications_to_send, send_idx, delivery>>
    /\ UNCHANGED <<sendVars, prefVars, bframe, pureVars, apiVars>>
    /\ UNCHANGED brokerVars

\* lines 39-42
GetTemplates(db_ok) ==
    /\ ppc = "get_templates"
    /\ IF db_ok
         THEN /\ ppc' = "for_templates"
              /\ templates' = get_templates(template_table, event.event_type)
              /\ UNCHANGED caught
         ELSE /\ ppc' = "returned"
              /\ caught' = StorageError
              /\ UNCHANGED templates
    /\ UNCHANGED <<message, cpc, dispositions, event, template_table,
                   notifications_to_send, send_idx, delivery>>
    /\ UNCHANGED <<sendVars, prefVars, bframe, pureVars, apiVars>>
    /\ UNCHANGED brokerVars

\* lines 44-90: one pass of the template loop; db_ok is the commit of
\* _create_notification (line 195) when the pass reaches it
ProcessTemplate(db_ok) ==
    /\ ppc = "for_templates"
    /\ templates # << >>
    /\ LET t == Head(templates)
           rendered == render_template(t)
           fcm_token == resolve_fcm_token(event, preferences)
           is_email == t.notification_type = EMAIL
           skipped ==
             \/ ~should_send_notification(preferences, t.notification_type,
                                          event.event_type)
             \/ is_email /\ ~HasRecipientEmail(event)
             \/ ~is_email /\ ~Truthy(fcm_token)
           key_error ==
             (IF is_email THEN "subject" ELSE "title") \notin rendered
           created ==
             IF is_email
               THEN create_notification(event, EMAIL, event.user_email, NULL)
               ELSE create_notification(event, PUSH, NULL, fcm_token)
       IN  IF skipped
             THEN /\ templates' = Tail(templates)
                  /\ UNCHANGED <<notifications_to_send, ppc, caught,
                                 committed>>
           ELSE IF key_error \/ ~db_ok
             THEN /\ ppc' = "returned"
                  /\ caught' = IF key_error THEN KeyErrorDetail
                                            ELSE StorageError
                  /\ UNCHANGED <<templates, notifications_to_send,
                                 committed>>
           ELSE /\ templates' = Tail(templates)
                /\ notifications_to_send' =
                     Append(notifications_to_send, created)
                /\ committed' = Append(committed, created.status)
                /\ UNCHANGED <<ppc, caught>>
    /\ UNCHANGED <<message, cpc, dispositions, event, template_table,
                   send_idx, delivery>>
    /\ UNCHANGED <<sendVars, prefVars, bframe, pureVars, apiVars>>
    /\ UNCHANGED <<queue, in_flight>>

\* line 93: the template loop is over, the send loop starts
StartSending ==
    /\ ppc = "for_templates"
    /\ templates = << >>
    /\ ppc' = "for_notifications"
    /\ UNCHANGED <<message, cpc, dispositions, event, template_table,
                   templates, notifications_to_send, send_idx, caught,
                   delivery>>
    /\ UNCHANGED <<sendVars, prefVars, bframe, pureVars, apiVars>>
    /\ UNCHANGED brokerVars

CommitOutcomes == {"ok", "raises", "raises_again"}

\* line 94: asyncio.run(_send_notification(db, notification)) up to the
\* await of the transport (line 243 or 262; the ConnectionManager of the
\* consumer process has no connections)
SendNotification ==
    /\ ppc = "for_notifications"
    /\ send_idx <= Len(notifications_to_send)
    /\ ppc' = "transport_await"
    /\ delivery' = delivery
                     \cup {notifications_to_send[send_idx].notification_type}
    /\ UNCHANGED <<message, cpc, dispositions, event, template_table,
                   templates, notifications_to_send, send_idx, caught>>
    /\ UNCHANGED <<sendVars, prefVars, bframe, pureVars, apiVars>>
    /\ UNCHANGED brokerVars

\* the awaited transport returns ok; lines 269-286 follow: the status
\* update, the commit of line 281 (returns or raises) and, when it raised,
\* the commit of line 286 (returns, or raises out of _send_notification)
TransportReturns(ok, commit) ==
    /\ ppc = "transport_await"
    /\ LET n == notifications_to_send[send_idx]
           n1 == IF ok THEN MarkSent(n, FALSE, now)
                       ELSE handle_failed_notification(n, NULL, now)
           n2 == IF commit = "ok"
                   THEN n1
                   ELSE handle_failed_notification(n1, CommitError, now)
       IN  /\ notifications_to_send' =
                [notifications_to_send EXCEPT ![send_idx] = n2]
           /\ committed' =
                CASE commit = "ok" -> [committed EXCEPT ![send_idx] = n1.status]
                  [] commit = "raises" ->
                       [committed EXCEPT ![send_idx] = n2.status]
                  [] OTHER -> committed
    /\ IF commit = "raises_again"
         THEN ppc' = "returned" /\ caught' = CommitError
                /\ UNCHANGED send_idx
         ELSE /\ ppc' = "for_notifications"
              /\ send_idx' = send_idx + 1
              /\ UNCHANGED caught
    /\ UNCHANGED <<message, cpc, dispositions, event, template_table,
                   templates, delivery>>
    /\ UNCHANGED <<sendVars, prefVars, bframe, pureVars, apiVars>>
    /\ UNCHANGED <<queue, in_flight>>

\* lines 98-99: the send loop is over, process_event returns
ProcessEventReturns ==
    /\ ppc = "for_notifications"
    /\ send_idx > Len(notifications_to_send)
    /\ ppc' = "returned"
    /\ UNCHANGED <<message, cpc, dispositions, event, template_table,
                   templates, notifications_to_send, send_idx, caught,
                   delivery>>
    /\ UNCHANGED <<sendVars, prefVars, bframe, pureVars, apiVars>>
    /\ UNCHANGED brokerVars

\* ============================================= process_notification_event
\* lines 27-39 of the consumer: the routing keys of the bounded deliveries
routing_key_mapping ==
    ("reservation.confirmed" :> "RESERVATION_CONFIRMED")
      @@ ("payment.success" :> "PAYMENT_SUCCESS")

\* A delivery: json says what json.loads makes of the body ("invalid": it
\* raises; "array": a JSON value that is no object); the other fields are the
\* members of a JSON object
Messages ==
    [ routing_key : {"reservation.confirmed"}, json : {"invalid", "array"},
      user_id : {NULL}, user_email : {NULL}, fcm_token : {NULL} ]
    \cup
    [ routing_key : {"reservation.confirmed"}, json : {"object"},
      user_id : {NotifUser, "not-a-uuid"},
      user_email : {NULL, "a@b.com"},
      fcm_token : {NULL, "", "fcm-token-event"} ]

NoError == "none"

\* lines 102-113: the exception the try block raises before process_event
\* is called: json.loads on a body that is no JSON (line 102), the item
\* assignment of transform_auth_event on a value that is no dict (line 92),
\* NotificationEvent(**...) on a user_id that is no UUID (line 113)
ParseError(msg) ==
    IF msg.json = "invalid" THEN "JSONDecodeError"
    ELSE IF msg.json # "object" THEN "TypeError"
    ELSE IF msg.user_id \notin Users THEN "ValidationError"
    ELSE NoError

\* line 113: the event of a valid message
NotificationEvent(msg) ==
    [ user_id |-> msg.user_id,
      user_email |-> msg.user_email,
      fcm_token |-> msg.fcm_token,
      event_type |-> routing_key_mapping[msg.routing_key] ]

NoEvent ==
    [ user_id |-> NULL, user_email |-> NULL, fcm_token |-> NULL,
      event_type |-> NULL ]

\* the except clauses without lines 122-125
ExceptClause_generic_only(exc) == "except_exception"

\* lines 122 and 127: the except clause that handles an exception
ExceptClause(exc) ==
    IF exc = "ValidationError" THEN "except_validation"
                               ELSE "except_exception"

\* lines 100-116: from the delivery to the call of process_event
Receive ==
    /\ cpc = "delivered"
    /\ LET err == ParseError(message)
       IN  IF err = NoError
             THEN /\ event' = NotificationEvent(message)
                  /\ cpc' = "process_event"
                  /\ ppc' = "get_preferences"
             ELSE /\ cpc' = ExceptClause(err)
                  /\ UNCHANGED <<event, ppc>>
    /\ UNCHANGED <<message, dispositions, template_table, templates,
                   notifications_to_send, send_idx, caught, delivery>>
    /\ UNCHANGED <<sendVars, prefVars, bframe, pureVars, apiVars>>
    /\ UNCHANGED brokerVars

Disposition(kind, requeue) == [kind |-> kind, requeue |-> requeue]

\* the broker's side of a disposition call that returned: the delivery is
\* settled, and put back on the queue when requeue is set; a call that
\* raised settles nothing
Settle(ok, requeue) ==
    IF ok
      THEN /\ in_flight' = Tail(in_flight)
           /\ queue' = IF requeue THEN << message >> \o queue ELSE queue
      ELSE UNCHANGED <<queue, in_flight>>

\* line 119: process_event returned; ok is whether basic_ack returns
BasicAck(ok) ==
    /\ cpc = "process_event"
    /\ ppc = "returned"
    /\ dispositions' = Append(dispositions, Disposition("ack", FALSE))
    /\ cpc' = IF ok THEN "done" ELSE ExceptClause("AMQPError")
    /\ UNCHANGED <<message, event, template_table, ppc, templates,
                   notifications_to_send, send_idx, caught, delivery>>
    /\ UNCHANGED <<sendVars, prefVars, bframe, pureVars, apiVars>>
    /\ Settle(ok, FALSE)
    /\ UNCHANGED committed

\* lines 122-125; an exception of basic_reject leaves the callback
BasicReject(ok) ==
    /\ cpc = "except_validation"
    /\ dispositions' = Append(dispositions, Disposition("reject", FALSE))
    /\ cpc' = IF ok THEN "done" ELSE "propagated"
    /\ UNCHANGED <<message, event, template_table, ppc, templates,
                   notifications_to_send, send_idx, caught, delivery>>
    /\ UNCHANGED <<sendVars, prefVars, bframe, pureVars, apiVars>>
    /\ Settle(ok, FALSE)
    /\ UNCHANGED committed

\* lines 127-130; an exception of basic_nack leaves the callback
BasicNack(ok) ==
    /\ cpc = "except_exception"
    /\ dispositions' = Append(dispositions, Disposition("nack", TRUE))
    /\ cpc' = IF ok THEN "done" ELSE "propagated"
    /\ UNCHANGED <<message, event, template_table, ppc, templates,
                   notifications_to_send, send_idx, caught, delivery>>
    /\ UNCHANGED <<sendVars, prefVars, bframe, pureVars, apiVars>>
    /\ Settle(ok, TRUE)
    /\ UNCHANGED committed

\* ================================================ RabbitMQService.consume
\* basic_qos with a second unacknowledged message allowed
prefetch_count_two == 1 + 1

\* line 98: basic_qos(prefetch_count=1)
prefetch_count == 1

\* lines 98-103: with auto_ack=False the broker hands the consumer a ready
\* message only while fewer than prefetch_count deliveries are unsettled
Deliver ==
    /\ cpc # "closed"
    /\ queue # << >>
    /\ Len(in_flight) < prefetch_count
    /\ in_flight' = Append(in_flight, Head(queue))
    /\ queue' = Tail(queue)
    /\ UNCHANGED committed
    /\ UNCHANGED eventVars
    /\ UNCHANGED <<sendVars, prefVars, bframe, pureVars, apiVars>>

\* line 107: start_consuming calls on_message_callback for the oldest
\* delivery it holds, one callback at a time
CallbackStarts ==
    /\ cpc \in {"idle", "done"}
    /\ in_flight # << >>
    /\ message' = Head(in_flight)
    /\ cpc' = "delivered"
    /\ dispositions' = << >>
    /\ event' = NoEvent
    /\ ppc' = "not_invoked"
    /\ templates' = << >>
    /\ notifications_to_send' = << >>
    /\ send_idx' = 1
    /\ caught' = NoError
    /\ delivery' = {}
    /\ committed' = << >>
    /\ UNCHANGED <<template_table, queue, in_flight>>
    /\ UNCHANGED <<sendVars, prefVars, bframe, pureVars, apiVars>>

\* lines 107-112: an exception of the callback leaves start_consuming and
\* close() ends the connection; the broker requeues what was unsettled
ConsumerStops ==
    /\ cpc = "propagated"
    /\ cpc' = "closed"
    /\ queue' = in_flight \o queue
    /\ in_flight' = << >>
    /\ UNCHANGED <<message, dispositions, event, template_table, ppc,
                   templates, notifications_to_send, send_idx, caught,
                   delivery, committed>>
    /\ UNCHANGED <<sendVars, prefVars, bframe, pureVars, apiVars>>

\* ================================================= _replace_placeholders
\* strings are sequences of characters; the keys of data are single letters
Chars == {"{", "}", "a", "b"}
Keys == {"a", "b"}

Strings(n) == UNION {[1..k -> Chars] : k \in 0..n}

\* str.replace(old, new): every non-overlapping occurrence, left to right
RECURSIVE str_replace(_, _, _)
str_replace(s, old, new) ==
    IF Len(s) < Len(old)
      THEN s
      ELSE IF SubSeq(s, 1, Len(old)) = old
             THEN new \o str_replace(SubSeq(s, Len(old) + 1, Len(s)), old, new)
             ELSE << s[1] >> \o str_replace(Tail(s), old, new)

\* line 162: placeholder = f"{{{key}}}"
placeholder(key) == << "{", key, "}" >>

\* lines 160-164: data is the dict in its iteration order, a sequence of
\* items; each item's replacement works on the result of the one before
RECURSIVE replace_placeholders(_, _)
replace_placeholders(template_str, data) ==
    IF data = << >>
      THEN template_str
      ELSE replace_placeholders(
             str_replace(template_str, placeholder(data[1].key), data[1].value),
             Tail(data))

\* the dicts of at most one item per key whose values hold MaxDataLen
\* characters in all
DataLen(d) == IF d = << >> THEN 0 ELSE IF Len(d) = 1 THEN Len(d[1].value)
                                       ELSE Len(d[1].value) + Len(d[2].value)

DataDicts ==
    {d \in UNION {[1..n -> [key : Keys, value : Strings(MaxDataLen)]] :
                    n \in 0..Cardinality(Keys)} :
        /\ \A i, j \in DOMAIN d : i # j => d[i].key # d[j].key
        /\ DataLen(d) <= MaxDataLen}

\* one call of _replace_placeholders
ReplacePlaceholders ==
    /\ ~render_call.called
    /\ render_call' =
         [render_call EXCEPT
            !.called = TRUE,
            !.result = replace_placeholders(render_call.template,
                                            render_call.data)]
    /\ UNCHANGED <<sendVars, prefVars, eventVars, brokerVars, bframe,
                   routing_call, auth_log, apiVars>>

\* ========================================= map_routing_key_to_event_type
\* a routing key or a tag is a sequence of pieces: ".", "_", a letter or a
\* word of the table; upper() and replace() work piece by piece
upper ==
    ("a" :> "A") @@ ("email" :> "EMAIL") @@ ("verification" :> "VERIFICATION")
      @@ ("welcome" :> "WELCOME") @@ ("password" :> "PASSWORD")
      @@ ("reset" :> "RESET") @@ ("changed" :> "CHANGED")
      @@ ("reservation" :> "RESERVATION") @@ ("created" :> "CREATED")
      @@ ("confirmed" :> "CONFIRMED") @@ ("cancelled" :> "CANCELLED")
      @@ ("reminder" :> "REMINDER") @@ ("payment" :> "PAYMENT")
      @@ ("success" :> "SUCCESS") @@ ("failed" :> "FAILED")
      @@ ("parking" :> "PARKING") @@ ("spot" :> "SPOT")
      @@ ("released" :> "RELEASED")

\* str.upper()
str_upper(s) ==
    [i \in DOMAIN s |-> IF s[i] \in DOMAIN upper THEN upper[s[i]] ELSE s[i]]

\* lines 28-44, the whole table
routing_key_table ==
    (<< "email", ".", "verification" >> :> << "EMAIL", "_", "VERIFICATION" >>)
      @@ (<< "email", ".", "welcome" >> :> << "EMAIL", "_", "WELCOME" >>)
      @@ (<< "email", ".", "password", "_", "reset" >>
            :> << "EMAIL", "_", "PASSWORD", "_", "RESET" >>)
      @@ (<< "email", ".", "password", "_", "changed" >>
            :> << "EMAIL", "_", "PASSWORD", "_", "CHANGED" >>)
      @@ (<< "reservation", ".", "created" >> :> << "RESERVATION", "_", "CREATED" >>)
      @@ (<< "reservation", ".", "confirmed" >>
            :> << "RESERVATION", "_", "CONFIRMED" >>)
      @@ (<< "reservation", ".", "cancelled" >>
            :> << "RESERVATION", "_", "CANCELLED" >>)
      @@ (<< "reservation", ".", "reminder" >> :> << "RESERVATION", "_", "REMINDER" >>)
      @@ (<< "payment", ".", "success" >> :> << "PAYMENT", "_", "SUCCESS" >>)
      @@ (<< "payment", ".", "failed" >> :> << "PAYMENT", "_", "FAILED" >>)
      @@ (<< "parking", ".", "spot", ".", "released" >> :> << "SPOT", "_", "RELEASED" >>)

\* line 46 without the table lookup
map_routing_key_to_event_type_fallback_only(routing_key) ==
    str_replace(str_upper(routing_key), << "." >>, << "_" >>)

\* line 46: routing_key_mapping.get(routing_key,
\*                                  routing_key.upper().replace('.', '_'))
map_routing_key_to_event_type(routing_key) ==
    IF routing_key \in DOMAIN routing_key_table
      THEN routing_key_table[routing_key]
      ELSE str_replace(str_upper(routing_key), << "." >>, << "_" >>)

\* the routing keys a delivery can carry: the listed ones, some that
\* resemble them, and every key of at most MaxKeyLen pieces
KeyPieces == {".", "_", "a", "A"}

\* unlisted keys spelled like a listed key or like its tag
NearListedKeys ==
    { << "payment", "_", "success" >>, << "spot", ".", "released" >>,
      << "RESERVATION", "_", "CREATED" >> }

RoutingKeys ==
    (DOMAIN routing_key_table)
      \cup NearListedKeys
      \cup UNION {[1..n -> KeyPieces] : n \in 0..MaxKeyLen}

\* a call of map_routing_key_to_event_type (line 107); two calls are kept
MapRoutingKey(routing_key) ==
    /\ Len(routing_call.keys) < 2
    /\ routing_call' =
         [ keys |-> Append(routing_call.keys, routing_key),
           tags |-> Append(routing_call.tags,
                           map_routing_key_to_event_type(routing_key)) ]
    /\ UNCHANGED <<sendVars, prefVars, eventVars, brokerVars, bframe,
                   render_call, auth_log, apiVars>>

\* ================================================== transform_auth_event
\* a user id is an integer (auth service), a UUID4 string (internal
\* format) or the UUID5 string derived from a name
IntUserId(n) == [kind |-> "int", value |-> n]
Uuid4UserId == [kind |-> "uuid4", value |-> 0]

\* str(uuid5(NAMESPACE_DNS, f"user-{user_id}")): a hash of the name, the
\* same string for the same name and (SHA-1) different for different names
uuid5(user_id) == [kind |-> "uuid5", value |-> user_id.value]

\* the body has no 'event_type' key (tags are sequences of pieces)
NoEventType == << >>

\* the decoded bodies: user_id, email and an event_type that may be absent
AuthMessages ==
    [ routing_key : {<< "email", ".", "welcome" >>,
                     << "reservation", ".", "confirmed" >>},
      user_id : {IntUserId(n) : n \in 1..MaxUserId} \cup {Uuid4UserId},
      email : {"a@b.com", "c@d.com"},
      event_type : {NoEventType, << "CUSTOM" >>} ]

\* line 55: routing_key.startswith('email.')
starts_with_email(routing_key) ==
    /\ Len(routing_key) >= 2
    /\ routing_key[1] = "email"
    /\ routing_key[2] = "."

\* lines 57-63 with the id derived from the email instead of the user id
auth_user_id_from_email(msg) ==
    [kind |-> "uuid5", value |-> IF msg.email = "a@b.com" THEN 1 ELSE 2]

\* lines 57-63: the user_id of the normalized event
auth_user_id(msg) ==
    IF msg.user_id.kind = "int" THEN uuid5(msg.user_id) ELSE msg.user_id

\* transform_auth_event with lines 91-92 setting event_type unconditionally
transform_auth_event_overwrites(msg, ev_type, routing_key) ==
    IF starts_with_email(routing_key)
      THEN [ user_id |-> auth_user_id(msg),
             user_email |-> msg.email,
             event_type |-> ev_type,
             data |-> [ name |-> "", email |-> msg.email,
                        frontend_url |-> "http://localhost:3000" ],
             priority |-> "normal" ]
      ELSE [msg EXCEPT !.event_type = ev_type]

\* lines 49-93; the bodies carry no verification_token, reset_token, name
\* or frontend_url
transform_auth_event(msg, ev_type, routing_key) ==
    IF starts_with_email(routing_key)
      THEN [ user_id |-> auth_user_id(msg),
             user_email |-> msg.email,
             event_type |-> ev_type,
             data |-> [ name |-> "", email |-> msg.email,
                        frontend_url |-> "http://localhost:3000" ],
             priority |-> "normal" ]
      ELSE IF msg.event_type = NoEventType
             THEN [msg EXCEPT !.event_type = ev_type]
             ELSE msg

\* schemas/notification.py lines 43-51: NotificationEvent(**message) accepts
\* a user_id that is a version-4 UUID and needs an event_type
notification_event_valid(ev) ==
    /\ ev.user_id.kind = "uuid4"
    /\ ev.event_type # NoEventType

\* lines 106-125 of process_notification_event for one decoded body: the
\* tag, the normalization, and the schema validation that decides between
\* process_event with basic_ack and basic_reject
NormalizeMessage(msg) ==
    /\ Len(auth_log) < MaxCalls
    /\ LET result == transform_auth_event(
                       msg, map_routing_key_to_event_type(msg.routing_key),
                       msg.routing_key)
       IN  auth_log' =
             Append(auth_log,
                    [ message |-> msg,
                      result |-> result,
                      disposition |-> IF notification_event_valid(result)
                                        THEN "ack" ELSE "reject" ])
    /\ UNCHANGED <<sendVars, prefVars, eventVars, brokerVars, bframe,
                   render_call, routing_call, apiVars>>

\* ============================================================== REST API
\* the endpoints are plain "def" handlers: FastAPI runs each request on a
\* thread of its pool, so a request can lie between its query and its
\* commit while another one runs
Workers == 1..MaxWorkers

NoRequest ==
    [ op |-> "none", event_type |-> NULL, notification_type |-> NULL,
      user_id |-> NoUser, fcm_token |-> NULL, email_enabled |-> TRUE ]

\* requests accepted so far, answered or not
NoResponse ==
    [ n |-> 0, op |-> "none", status |-> 0, event_type |-> NULL,
      notification_type |-> NULL, user_id |-> NoUser, fcm_token |-> NULL ]

RequestsStarted ==
    response.n + Cardinality({w \in Workers : request[w] # NoRequest})

\* the endpoint answers with an HTTP status: 201 created, 200 ok,
\* 400/404 HTTPException, 500 for an exception nothing handles
Respond(op, status, req) ==
    response' = [ n |-> response.n + 1, op |-> op, status |-> status,
                  event_type |-> req.event_type,
                  notification_type |-> req.notification_type,
                  user_id |-> req.user_id, fcm_token |-> req.fcm_token ]

\* ------------------------------------------------------ create_template
TemplateRow(ev, ntype) == [event_type |-> ev, notification_type |-> ntype]

\* models/notification.py line 71: event_type is unique=True; the INSERT of
\* a row whose event_type is already stored raises IntegrityError
unique_event_type(rows, row) ==
    \A r \in rows : r.event_type # row.event_type

\* endpoints.py lines 108-124: the query for the pair, 400 when it exists
CreateTemplateQuery(w, ev, ntype) ==
    /\ request[w] = NoRequest
    /\ RequestsStarted < MaxRequests
    /\ LET req == [NoRequest EXCEPT !.op = "create_template",
                                    !.event_type = ev,
                                    !.notification_type = ntype]
       IN  IF TemplateRow(ev, ntype) \in notification_templates
             THEN /\ Respond("create_template", 400, req)
                  /\ UNCHANGED request
             ELSE /\ request' = [request EXCEPT ![w] = req]
                  /\ UNCHANGED response
    /\ UNCHANGED <<notification_templates, user_notification_preferences>>
    /\ UNCHANGED <<sendVars, prefVars, eventVars, brokerVars, bframe, pureVars>>

\* endpoints.py lines 126-141: db.add, db.commit
CreateTemplateCommit(w) ==
    /\ request[w].op = "create_template"
    /\ LET row == TemplateRow(request[w].event_type,
                              request[w].notification_type)
       IN  IF unique_event_type(notification_templates, row)
             THEN /\ notification_templates' = notification_templates \cup {row}
                  /\ Respond("create_template", 201, request[w])
             ELSE /\ UNCHANGED notification_templates
                  /\ Respond("create_template", 500, request[w])
    /\ request' = [request EXCEPT ![w] = NoRequest]
    /\ UNCHANGED user_notification_preferences
    /\ UNCHANGED <<sendVars, prefVars, eventVars, brokerVars, bframe, pureVars>>

\* -------------------------------------------------- preference endpoints
FcmTokens == {"t1", "t2"}

PreferenceRow(user_id, fcm_token, email_enabled, push_enabled) ==
    [ user_id |-> user_id, fcm_token |-> fcm_token,
      email_enabled |-> email_enabled, push_enabled |-> push_enabled ]

\* db.query(UserNotificationPreference).filter(user_id == ...).first()
HasPreferences(rows, user_id) ==
    \E i \in DOMAIN rows : rows[i].user_id = user_id

\* no constraint on the table
unique_user_id_absent(rows, user_id) == TRUE

\* models/notification.py line 95: user_id is unique=True; the INSERT of a
\* second row for the user raises IntegrityError
unique_user_id(rows, user_id) == ~HasPreferences(rows, user_id)

\* setattr on the user's row
UpdateRow(rows, user_id, field, value) ==
    [i \in DOMAIN rows |->
       IF rows[i].user_id = user_id
         THEN [rows[i] EXCEPT ![field] = value]
         ELSE rows[i]]

\* db.add(row); db.commit(): 'created' when stored, 500 on IntegrityError
InsertPreferences(w, op, created, row) ==
    /\ IF unique_user_id(user_notification_preferences, row.user_id)
         THEN /\ user_notification_preferences' =
                   Append(user_notification_preferences, row)
              /\ Respond(op, created, request[w])
         ELSE /\ UNCHANGED user_notification_preferences
              /\ Respond(op, 500, request[w])
    /\ request' = [request EXCEPT ![w] = NoRequest]
    /\ UNCHANGED notification_templates
    /\ UNCHANGED <<sendVars, prefVars, eventVars, brokerVars, bframe, pureVars>>

\* endpoints.py lines 214-229: the query for the user, 400 when a row exists
CreateUserPreferencesQuery(w, user_id, fcm_token, email_enabled) ==
    /\ request[w] = NoRequest
    /\ RequestsStarted < MaxRequests
    /\ LET req == [NoRequest EXCEPT !.op = "create_user_preferences",
                                    !.user_id = user_id,
                                    !.fcm_token = fcm_token,
                                    !.email_enabled = email_enabled]
       IN  IF HasPreferences(user_notification_preferences, user_id)
             THEN /\ Respond("create_user_preferences", 400, req)
                  /\ UNCHANGED request
             ELSE /\ request' = [request EXCEPT ![w] = req]
                  /\ UNCHANGED response
    /\ UNCHANGED <<notification_templates, user_notification_preferences>>
    /\ UNCHANGED <<sendVars, prefVars, eventVars, brokerVars, bframe, pureVars>>

\* endpoints.py lines 231-243
CreateUserPreferencesCommit(w) ==
    /\ request[w].op = "create_user_preferences"
    /\ InsertPreferences(w, "create_user_preferences", 201,
         PreferenceRow(request[w].user_id, request[w].fcm_token,
                       IF request[w].email_enabled THEN 1 ELSE 0, 1))

\* endpoints.py lines 246-278 with update_data = {'email_enabled': ...}
UpdateUserPreferences(user_id, email_enabled) ==
    /\ RequestsStarted < MaxRequests
    /\ LET req == [NoRequest EXCEPT !.op = "update_user_preferences",
                                    !.user_id = user_id,
                                    !.email_enabled = email_enabled]
       IN  IF HasPreferences(user_notification_preferences, user_id)
             THEN /\ user_notification_preferences' =
                       UpdateRow(user_notification_preferences, user_id,
                                 "email_enabled",
                                 IF email_enabled THEN 1 ELSE 0)
                  /\ Respond("update_user_preferences", 200, req)
             ELSE /\ UNCHANGED user_notification_preferences
                  /\ Respond("update_user_preferences", 404, req)
    /\ UNCHANGED <<notification_templates, request>>
    /\ UNCHANGED <<sendVars, prefVars, eventVars, brokerVars, bframe, pureVars>>

\* endpoints.py lines 281-302: the query; an existing row gets the token
\* (lines 301-304), a missing one is created by the commit step
UpdateFcmTokenQuery(w, user_id, fcm_token) ==
    /\ request[w] = NoRequest
    /\ RequestsStarted < MaxRequests
    /\ LET req == [NoRequest EXCEPT !.op = "update_fcm_token",
                                    !.user_id = user_id,
                                    !.fcm_token = fcm_token]
       IN  IF HasPreferences(user_notification_preferences, user_id)
             THEN /\ user_notification_preferences' =
                       UpdateRow(user_notification_preferences, user_id,
                                 "fcm_token", fcm_token)
                  /\ Respond("update_fcm_token", 200, req)
                  /\ UNCHANGED request
             ELSE /\ request' = [request EXCEPT ![w] = req]
                  /\ UNCHANGED <<user_notification_preferences, response>>
    /\ UNCHANGED notification_templates
    /\ UNCHANGED <<sendVars, prefVars, eventVars, brokerVars, bframe, pureVars>>

\* endpoints.py lines 291-307: db.add of the new row, db.commit
UpdateFcmTokenCommit(w) ==
    /\ request[w].op = "update_fcm_token"
    /\ InsertPreferences(w, "update_fcm_token", 200,
         PreferenceRow(request[w].user_id, request[w].fcm_token, 1, 1))

\* ========================================================= specifications
\* no pure function has been called
NoRender == [template |-> << >>, data |-> << >>, called |-> FALSE,
             result |-> << >>]
NoRouting == [keys |-> << >>, tags |-> << >>]

InitNoCalls ==
    /\ render_call = NoRender
    /\ routing_call = NoRouting
    /\ auth_log = << >>

\* the API has served nothing and both tables are empty
InitNoRequests ==
    /\ notification_templates = {}
    /\ user_notification_preferences = << >>
    /\ request = [w \in Workers |-> NoRequest]
    /\ response = NoResponse

InitSend ==
    /\ notification \in {NewNotification(t, d) :
                           t \in NotificationType, d \in {EmptyData, SampleData}}
    /\ now = 0
    /\ active_connections = << >>
    /\ handler = [w \in Sockets |-> NoUser]
    /\ pc = "idle"
    /\ success = FALSE
    /\ sent_via_websocket = FALSE
    /\ frame = NoFrame
    /\ attempt = NoAttempt
    /\ history = [attempts |-> 0, failed_attempts |-> 0, handled |-> 0]
    /\ bframe = NoBroadcast

\* no delivery is being handled
InitNoDelivery ==
    /\ message = [ routing_key |-> "reservation.confirmed", json |-> "invalid",
                   user_id |-> NULL, user_email |-> NULL, fcm_token |-> NULL ]
    /\ cpc = "idle"
    /\ dispositions = << >>
    /\ event = NoEvent
    /\ template_table = << >>
    /\ ppc = "not_invoked"
    /\ templates = << >>
    /\ notifications_to_send = << >>
    /\ send_idx = 1
    /\ caught = NoError
    /\ delivery = {}
    /\ committed = << >>
    /\ queue = << >>
    /\ in_flight = << >>

Init ==
    /\ InitSend
    /\ InitNoCalls
    /\ InitNoRequests
    /\ preferences = NoPreferences
    /\ template = EMAIL
    /\ event_type = "RESERVATION_CONFIRMED"
    /\ should_send = NotAsked
    /\ InitNoDelivery

Next ==
    \/ StartSend
    \/ PollerResend
    \/ \E ok \in BOOLEAN : WsSendNext(ok)
    \/ \E ok \in BOOLEAN : WsSendRaises(ok)
    \/ \E ok \in BOOLEAN : WsSendDone(ok)
    \/ \E ok \in BOOLEAN : PushReturns(ok)
    \/ \E ok \in BOOLEAN : EmailReturns(ok)
    \/ CommitOk
    \/ CommitRaises
    \/ CommitRaisesAgain
    \/ \E w \in Sockets, u \in Users : connect(w, u)
    \/ \E w \in Sockets : disconnect(w)
    \/ Tick

Spec == Init /\ [][Next]_vars

\* the preference resolver applied to every bounded input
InitPrefs ==
    /\ InitSend
    /\ InitNoCalls
    /\ InitNoRequests
    /\ notification = NewNotification(EMAIL, EmptyData)
    /\ preferences \in {NoPreferences} \cup PreferenceRecords
    /\ template \in NotificationType
    /\ event_type \in EventTypes
    /\ should_send = NotAsked
    /\ InitNoDelivery

NextPrefs == ShouldSend

SpecPrefs == InitPrefs /\ [][NextPrefs]_vars

\* the consumer callback handling one delivery, over every bounded message,
\* preference record and template table
ConsumerPreferences ==
    {NoPreferences} \cup
    [ exists : {TRUE}, email_enabled : {0, 1}, push_enabled : {0, 1},
      fcm_token : {NULL, "fcm-token-prefs"},
      event_preferences :
        {<< >>, ("RESERVATION_CONFIRMED" :> (PUSH :> FALSE))} ]

InitConsumer ==
    /\ InitSend
    /\ InitNoCalls
    /\ InitNoRequests
    /\ notification = NewNotification(EMAIL, EmptyData)
    /\ preferences \in ConsumerPreferences
    /\ template = EMAIL
    /\ event_type = "RESERVATION_CONFIRMED"
    /\ should_send = NotAsked
    /\ message \in Messages
    /\ cpc = "delivered"
    /\ dispositions = << >>
    /\ event = NoEvent
    /\ template_table \in TemplateTables
    /\ ppc = "not_invoked"
    /\ templates = << >>
    /\ notifications_to_send = << >>
    /\ send_idx = 1
    /\ caught = NoError
    /\ delivery = {}
    /\ committed = << >>
    /\ queue = << >>
    /\ in_flight = << message >>

NextConsumer ==
    \/ Receive
    \/ \E db_ok \in BOOLEAN : GetUserPreferences(db_ok)
    \/ \E db_ok \in BOOLEAN : GetTemplates(db_ok)
    \/ \E db_ok \in BOOLEAN : ProcessTemplate(db_ok)
    \/ StartSending
    \/ SendNotification
    \/ \E ok \in BOOLEAN, commit \in CommitOutcomes :
         TransportReturns(ok, commit)
    \/ ProcessEventReturns
    \/ \E ok \in BOOLEAN : BasicAck(ok)
    \/ \E ok \in BOOLEAN : BasicReject(ok)
    \/ \E ok \in BOOLEAN : BasicNack(ok)

SpecConsumer == InitConsumer /\ [][NextConsumer]_vars

\* the transport of a send attempt may never respond: every step of the
\* program is taken when it can be, but no fairness is assumed for
\* TransportReturns
NextProgram ==
    \/ Receive
    \/ \E db_ok \in BOOLEAN : GetUserPreferences(db_ok)
    \/ \E db_ok \in BOOLEAN : GetTemplates(db_ok)
    \/ \E db_ok \in BOOLEAN : ProcessTemplate(db_ok)
    \/ StartSending
    \/ SendNotification
    \/ ProcessEventReturns
    \/ \E ok \in BOOLEAN : BasicAck(ok)
    \/ \E ok \in BOOLEAN : BasicReject(ok)
    \/ \E ok \in BOOLEAN : BasicNack(ok)

SpecStuckTransport ==
    InitConsumer /\ [][NextConsumer]_vars /\ WF_vars(NextProgram)

\* the consumer on a queue of messages
QueueMessages ==
    { [ routing_key |-> "reservation.confirmed", json |-> "invalid",
        user_id |-> NULL, user_email |-> NULL, fcm_token |-> NULL ],
      [ routing_key |-> "reservation.confirmed", json |-> "object",
        user_id |-> "not-a-uuid", user_email |-> NULL, fcm_token |-> NULL ],
      [ routing_key |-> "reservation.confirmed", json |-> "object",
        user_id |-> NotifUser, user_email |-> "a@b.com",
        fcm_token |-> NULL ] }

InitQueue ==
    /\ InitSend
    /\ InitNoCalls
    /\ InitNoRequests
    /\ notification = NewNotification(EMAIL, EmptyData)
    /\ preferences = NoPreferences
    /\ template = EMAIL
    /\ event_type = "RESERVATION_CONFIRMED"
    /\ should_send = NotAsked
    /\ cpc = "idle"
    /\ dispositions = << >>
    /\ event = NoEvent
    /\ template_table =
         ("RESERVATION_CONFIRMED" :>
            [ notification_type |-> EMAIL, subject_template |-> "subject",
              title_template |-> NULL, is_active |-> 1 ])
    /\ ppc = "not_invoked"
    /\ templates = << >>
    /\ notifications_to_send = << >>
    /\ send_idx = 1
    /\ caught = NoError
    /\ delivery = {}
    /\ committed = << >>
    /\ queue \in UNION {[1..n -> QueueMessages] : n \in 1..MaxQueue}
    /\ message = queue[1]
    /\ in_flight = << >>

NextQueue ==
    \/ Deliver
    \/ CallbackStarts
    \/ ConsumerStops
    \/ NextConsumer

SpecQueue == InitQueue /\ [][NextQueue]_vars

\* ================================================================ claims
\* the connection registry under connect, disconnect, one realtime send of
\* a push Notification and any number of broadcasts
InitRegistry ==
    /\ Init
    /\ notification = NewNotification(PUSH, EmptyData)

NextRegistry ==
    \/ \E w \in Sockets, u \in Users : connect(w, u)
    \/ \E w \in Sockets : disconnect(w)
    \/ StartSend
    \/ \E ok \in BOOLEAN : WsSendNext(ok)
    \/ \E ok \in BOOLEAN : WsSendRaises(ok)
    \/ \E ok \in BOOLEAN : WsSendDone(ok)
    \/ \E ok \in BOOLEAN : PushReturns(ok)
    \/ CommitOk
    \/ BroadcastStart
    \/ BroadcastNoAwait
    \/ \E ok \in BOOLEAN : BroadcastNextSocket(ok)
    \/ \E ok \in BOOLEAN : BroadcastNextUser(ok)
    \/ \E ok \in BOOLEAN : BroadcastDone(ok)
    \/ \E ok \in BOOLEAN : BroadcastRaises(ok)

SpecRegistry == InitRegistry /\ [][NextRegistry]_vars

\* the registry as the application drives it: endpoint handlers that start
\* and end while send_notification runs (broadcast has no caller)
NextHandlers ==
    \/ \E w \in Sockets, u \in Users : connect(w, u)
    \/ \E w \in Sockets : disconnect(w)
    \/ StartSend
    \/ \E ok \in BOOLEAN : WsSendNext(ok)
    \/ \E ok \in BOOLEAN : WsSendRaises(ok)
    \/ \E ok \in BOOLEAN : WsSendDone(ok)
    \/ \E ok \in BOOLEAN : PushReturns(ok)
    \/ CommitOk

SpecHandlers == InitRegistry /\ [][NextHandlers]_vars

\* no send, no delivery, no preference query is under way
InitIdle ==
    /\ InitSend
    /\ notification = NewNotification(EMAIL, EmptyData)
    /\ preferences = NoPreferences
    /\ template = EMAIL
    /\ event_type = "RESERVATION_CONFIRMED"
    /\ should_send = NotAsked
    /\ InitNoDelivery

\* _replace_placeholders applied to every bounded template and dict
InitRender ==
    /\ InitIdle
    /\ render_call \in [template : Strings(MaxTemplateLen), data : DataDicts,
                        called : {FALSE}, result : {<< >>}]
    /\ routing_call = NoRouting
    /\ auth_log = << >>
    /\ InitNoRequests

NextRender == ReplacePlaceholders

SpecRender == InitRender /\ [][NextRender]_vars

\* map_routing_key_to_event_type called on bounded routing keys
InitRouting ==
    /\ InitIdle
    /\ InitNoCalls
    /\ InitNoRequests

NextRouting == \E routing_key \in RoutingKeys : MapRoutingKey(routing_key)

SpecRouting == InitRouting /\ [][NextRouting]_vars

\* transform_auth_event called on bounded bodies, one after the other
InitAuth ==
    /\ InitIdle
    /\ InitNoCalls
    /\ InitNoRequests

NextAuth == \E msg \in AuthMessages : NormalizeMessage(msg)

SpecAuth == InitAuth /\ [][NextAuth]_vars

\* the template endpoints under concurrent requests
InitApi ==
    /\ InitIdle
    /\ InitNoCalls
    /\ InitNoRequests

NextTemplates ==
    \/ \E w \in Workers, ev \in EventTypes, ntype \in NotificationType :
          CreateTemplateQuery(w, ev, ntype)
    \/ \E w \in Workers : CreateTemplateCommit(w)

SpecTemplates == InitApi /\ [][NextTemplates]_vars

\* the preference endpoints under concurrent requests
NextPreferences ==
    \/ \E w \in Workers, u \in Users, t \in {NULL} \cup FcmTokens, e \in BOOLEAN :
          CreateUserPreferencesQuery(w, u, t, e)
    \/ \E w \in Workers : CreateUserPreferencesCommit(w)
    \/ \E u \in Users, e \in BOOLEAN : UpdateUserPreferences(u, e)
    \/ \E w \in Workers, u \in Users, t \in FcmTokens : UpdateFcmTokenQuery(w, u, t)
    \/ \E w \in Workers : UpdateFcmTokenCommit(w)

SpecPreferences == InitApi /\ [][NextPreferences]_vars

AttemptFailed == attempt.transport \in {"failed", "raised"}

C2_RetrySequence ==
    (pc = "idle" /\ history.attempts = history.failed_attempts) =>
        LET k == history.failed_attempts
        IN  /\ notification.retry_count = k
            /\ notification.status =
                 IF k = 0 THEN PENDING
                 ELSE IF k < notification.max_retries THEN RETRYING
                 ELSE FAILED

\* C3: in every reachable state retry_count <= max_retries.
C3_RetryCountBounded ==
    notification.retry_count <= notification.max_retries

\* C4: in every reachable state RETRYING implies retry_count < max_retries
\* and FAILED implies retry_count = max_retries.
C4_StatusCountersConsistent ==
    /\ notification.status = RETRYING
         => notification.retry_count < notification.max_retries
    /\ notification.status = FAILED
         => notification.retry_count = notification.max_retries

\* C5: SENT and FAILED are terminal: no step changes the status of a
\* Notification that is SENT or FAILED.
C5_TerminalStatus ==
    [][notification.status \in {SENT, FAILED}
         => notification'.status = notification.status]_vars

\* C6: when the realtime send of an attempt returned true, the Notification
\* is marked SENT through the realtime path and the push-token sender is not
\* invoked in that attempt.
C6_RealtimeExcludesPush ==
    attempt.realtime = "true" =>
        /\ ~attempt.push_invoked
        /\ pc = "commit" =>
             /\ notification.status = SENT
             /\ sent_via_websocket

C6_Witness ==
    /\ pc = "idle"
    /\ attempt.realtime = "true"
    /\ ~attempt.push_invoked
    /\ notification.status = SENT
    /\ notification.data.sent_via = "websocket"

\* C7: for a push Notification with a recipient token, an attempt whose
\* realtime delivery was not tried, returned false or raised is declared
\* failed only after the push-token sender was invoked.
C7_FallbackBeforeFailure ==
    ( /\ notification.notification_type = PUSH
      /\ notification.recipient_fcm_token # NULL
      /\ attempt.realtime \in {"none", "false", "raised"}
      /\ attempt.handled > 0 )
        => attempt.push_invoked

\* C8: a SENT Notification carries sent_via = "websocket" exactly when the
\* realtime path delivered it and the raw channel kind otherwise; a
\* Notification that is not SENT carries no sent_via tag.
C8_ProvenanceTag ==
    /\ notification.status = SENT =>
         notification.data.sent_via =
             IF attempt.realtime = "true" THEN "websocket"
                                          ELSE notification.notification_type
    /\ notification.status # SENT => notification.data.sent_via = NULL

\* C9: the step in which the transport reports success sets status = SENT
\* and sent_at = now and leaves retry_count, next_retry_at and error_message
\* alone; in every state SENT implies that sent_at is set.
C9_SentStep ==
    (attempt'.transport = "ok" /\ attempt.transport # "ok") =>
        /\ notification'.status = SENT
        /\ notification'.sent_at = now
        /\ notification'.retry_count = notification.retry_count
        /\ notification'.next_retry_at = notification.next_retry_at
        /\ notification'.error_message = notification.error_message

C9_SentImpliesSentAt ==
    notification.status = SENT => notification.sent_at # NoTime

C9_SuccessMarksSent ==
    [][C9_SentStep]_vars /\ []C9_SentImpliesSentAt

C9_Witness ==
    /\ pc = "idle"
    /\ attempt.transport = "ok"
    /\ notification.status = SENT
    /\ notification.sent_at = now
    /\ notification.retry_count > 0
    /\ notification.next_retry_at # NoTime

\* C10: when the global flag of the template's channel is off and
\* event_preferences holds an explicit true for the event type and that
\* channel, shouldSend returns true.
C10_OverrideWins ==
    ( /\ should_send.asked
      /\ preferences.exists
      /\ (IF template = EMAIL THEN preferences.email_enabled
                              ELSE preferences.push_enabled) = 0
      /\ event_type \in DOMAIN preferences.event_preferences
      /\ template \in DOMAIN preferences.event_preferences[event_type]
      /\ preferences.event_preferences[event_type][template] )
        => should_send.result

\* the global flag of the template's channel in the preference record
GlobalFlagOn ==
    (IF template = EMAIL THEN preferences.email_enabled
                         ELSE preferences.push_enabled) # 0

\* event_preferences has an entry for the event type
HasEventEntry == event_type \in DOMAIN preferences.event_preferences

\* ... and that entry specifies the template's channel
HasOverride ==
    /\ HasEventEntry
    /\ template \in DOMAIN preferences.event_preferences[event_type]

\* C11: when no preference record exists for the user, shouldSend returns
\* true for every template (either channel) and every event type.
C11_DefaultAllow ==
    (should_send.asked /\ ~preferences.exists) => should_send.result

C11_Witness ==
    /\ should_send.asked
    /\ ~preferences.exists
    /\ template = PUSH
    /\ event_type = "PAYMENT_SUCCESS"
    /\ should_send.result

\* C12: for every preference record whose global flag for the template's
\* channel is false and which has no override for the event type,
\* shouldSend returns false.
C12_GlobalFlagOff ==
    ( /\ should_send.asked
      /\ preferences.exists
      /\ ~GlobalFlagOn
      /\ ~HasEventEntry )
        => ~should_send.result

C12_Witness ==
    /\ should_send.asked
    /\ preferences.exists
    /\ template = PUSH
    /\ preferences.push_enabled = 0
    /\ preferences.email_enabled = 1
    /\ ~HasEventEntry
    /\ ~should_send.result

\* C13: for every preference record whose global flag for the template's
\* channel is enabled, shouldSend returns the override's boolean when
\* event_preferences has an entry for the event type that specifies this
\* channel, and true otherwise (no entry, or an entry that does not mention
\* the channel).
C13_OverrideOrAllow ==
    ( /\ should_send.asked
      /\ preferences.exists
      /\ GlobalFlagOn )
        => should_send.result =
             IF HasOverride
               THEN preferences.event_preferences[event_type][template]
               ELSE TRUE

C13_Witness ==
    /\ should_send.asked
    /\ preferences.exists
    /\ GlobalFlagOn
    /\ HasOverride
    /\ ~preferences.event_preferences[event_type][template]
    /\ ~should_send.result

\* ---------------------------------------------- process_event, the consumer
\* the channel of the active template of the event's type, if there is one
ActiveChannels ==
    { template_table[ev].notification_type :
        ev \in { e \in DOMAIN template_table :
                   e = event.event_type /\ template_table[e].is_active = 1 } }

\* the event or the preference record carries a push token
HasPushToken ==
    \/ Truthy(event.fcm_token)
    \/ preferences.exists /\ Truthy(preferences.fcm_token)

\* channels whose template passes the preference check and has a recipient
QualifyingChannels ==
    { c \in ActiveChannels :
        /\ should_send_notification(preferences, c, event.event_type)
        /\ IF c = EMAIL THEN Truthy(event.user_email) ELSE HasPushToken }

CreatedChannels ==
    { notifications_to_send[i].notification_type :
        i \in DOMAIN notifications_to_send }

ProcessEventOver ==
    ppc \in {"for_notifications", "transport_await", "returned"}

CallbackOver == cpc \in {"done", "propagated"}

\* C14: processing one event creates exactly one Notification (status
\* pending, retry_count 0) for each active template of the event's type that
\* passes the preference check and recipient resolution, and none for any
\* other template; with no active template it creates no Notification,
\* attempts no delivery and raises no error (storage failures set aside).
C14_OnePerQualifyingTemplate ==
    /\ ppc = "for_templates" =>
         \A i \in DOMAIN notifications_to_send :
            /\ notifications_to_send[i].status = PENDING
            /\ notifications_to_send[i].retry_count = 0
    /\ (ProcessEventOver /\ caught \notin {StorageError, CommitError}) =>
         /\ CreatedChannels = QualifyingChannels
         /\ Len(notifications_to_send) = Cardinality(QualifyingChannels)
         /\ ActiveChannels = {} =>
              /\ notifications_to_send = << >>
              /\ delivery = {}
              /\ caught = NoError

\* C15: for an email template, when the event carries no user_email no
\* Notification is created and the email sender is never invoked for that
\* event; an email Notification exists only with a populated recipient_email
\* and an empty recipient_fcm_token.
C15_EmailNeedsAddress ==
    /\ (ppc # "not_invoked" /\ ~Truthy(event.user_email)) =>
         /\ EMAIL \notin CreatedChannels
         /\ EMAIL \notin delivery
    /\ \A i \in DOMAIN notifications_to_send :
         notifications_to_send[i].notification_type = EMAIL =>
            /\ Truthy(notifications_to_send[i].recipient_email)
            /\ notifications_to_send[i].recipient_fcm_token = NULL

C15_Witness ==
    /\ cpc = "done"
    /\ ppc = "returned"
    /\ caught = NoError
    /\ event.user_email = NULL
    /\ EMAIL \in ActiveChannels
    /\ template_table[event.event_type].subject_template # NULL
    /\ ~preferences.exists
    /\ notifications_to_send = << >>
    /\ delivery = {}

\* C16: for a push template, the created Notification's recipient token is
\* the event's token when the event carries one, otherwise the token of the
\* user's preference record when that exists and has one; when neither is
\* present no push Notification is created and no push or realtime delivery
\* is attempted.
C16_PushTokenResolution ==
    /\ \A i \in DOMAIN notifications_to_send :
         notifications_to_send[i].notification_type = PUSH =>
            /\ HasPushToken
            /\ notifications_to_send[i].recipient_fcm_token =
                 IF Truthy(event.fcm_token) THEN event.fcm_token
                                            ELSE preferences.fcm_token
    /\ (ppc # "not_invoked" /\ ~HasPushToken) =>
         /\ PUSH \notin CreatedChannels
         /\ PUSH \notin delivery

C16_Witness ==
    /\ cpc = "done"
    /\ ~Truthy(event.fcm_token)
    /\ preferences.exists
    /\ Len(notifications_to_send) = 1
    /\ notifications_to_send[1].notification_type = PUSH
    /\ notifications_to_send[1].recipient_fcm_token = "fcm-token-prefs"
    /\ notifications_to_send[1].status = SENT
    /\ PUSH \in delivery

\* the body is a JSON object that fails the NotificationEvent schema
SchemaInvalid == message.json = "object" /\ message.user_id \notin Users

RejectNoRequeue == Disposition("reject", FALSE)

\* C17: whenever the normalized message fails NotificationEvent validation,
\* the adapter issues a reject with requeue=false (never an ack, never a
\* requeue) and the orchestrator is not invoked, so no Notification is
\* created for it.
C17_InvalidIsRejected ==
    SchemaInvalid =>
        /\ ppc = "not_invoked"
        /\ notifications_to_send = << >>
        /\ \A i \in DOMAIN dispositions : dispositions[i] = RejectNoRequeue
        /\ CallbackOver => dispositions = << RejectNoRequeue >>

C17_Witness ==
    /\ SchemaInvalid
    /\ cpc = "done"
    /\ ppc = "not_invoked"
    /\ dispositions = << RejectNoRequeue >>

\* C18: every malformed transport message, including a body that is not
\* valid JSON or is not a JSON object, is rejected without requeue and is
\* never requeued.
C18_MalformedNeverRequeued ==
    (message.json # "object" \/ SchemaInvalid) =>
        /\ \A i \in DOMAIN dispositions : ~dispositions[i].requeue
        /\ cpc = "done" => RejectNoRequeue \in
                             {dispositions[i] : i \in DOMAIN dispositions}

\* C19: whenever an unexpected exception occurs while an event is being
\* processed (a storage failure while reading preferences or templates or
\* while creating a Notification), the message is nacked with requeue=true
\* and is not acked.
C19_ProcessingErrorIsNacked ==
    (caught # NoError /\ CallbackOver) =>
        /\ \E i \in DOMAIN dispositions :
              dispositions[i] = Disposition("nack", TRUE)
        /\ \A i \in DOMAIN dispositions : dispositions[i].kind # "ack"

\* C20: for every delivered message exactly one of ack, reject-no-requeue,
\* nack-requeue is issued for its delivery tag, never zero and never two, on
\* every path through the callback, also when the acknowledgement call
\* itself raises.
C20_ExactlyOneDisposition ==
    /\ Len(dispositions) <= 1
    /\ CallbackOver => Len(dispositions) = 1

\* an ack was issued for the delivery
AckIssued ==
    \E i \in DOMAIN dispositions : dispositions[i].kind = "ack"

\* C21: a transport message is acknowledged only after every Notification
\* created for its event has reached a send outcome: at the moment of the
\* ack no Notification created while processing that message still has
\* status PENDING, neither the object nor its stored row.
C21_NoPendingAtAck ==
    AckIssued =>
        \A i \in DOMAIN notifications_to_send :
            /\ notifications_to_send[i].status # PENDING
            /\ committed[i] # PENDING

\* a callback starts in this step
CallbackStarting == cpc # "delivered" /\ cpc' = "delivered"

C22_InFlightBound == Len(in_flight) <= 1

C22_StartAfterDisposition ==
    CallbackStarting =>
        /\ in_flight' = << message' >>
        /\ cpc = "done" =>
             \E i \in DOMAIN dispositions :
                dispositions[i] \in {Disposition("ack", FALSE),
                                     Disposition("reject", FALSE),
                                     Disposition("nack", TRUE)}

\* C22: a consumer worker has at most one unacknowledged message in flight
\* (prefetch limit one, manual acknowledgement): the callback for the next
\* message never starts before the current message has received its ack,
\* reject or nack.
C22_OneInFlight ==
    []C22_InFlightBound /\ [][C22_StartAfterDisposition]_vars

C22_Witness ==
    /\ cpc = "process_event"
    /\ ppc = "transport_await"
    /\ in_flight = << message >>
    /\ queue # << >>
    /\ dispositions = << >>

\* C26: processing of a message always terminates: when a transport never
\* responds the send attempt is cut off by a timeout and treated as a
\* failure, so the worker still issues a disposition for the message.
C26_DispositionIssued == <>CallbackOver

\* C23: a connect or a disconnect that interleaves with an in-progress
\* send_notification at its await point does not make the send fail: the
\* call ends with a boolean result, no error from the connection set
\* changing during iteration or from the user's entry being removed, and
\* no connection is counted twice.
C23_SendSurvivesInterleaving ==
    /\ attempt.realtime # "raised"
    /\ Iterating => frame.sent_count <= Cardinality(frame.iter_visited)

\* the call of ConnectionManager.send_notification ends in this step
WsCallEnds == pc = "ws_await" /\ pc' # "ws_await"

\* C25: send_notification returns a boolean, true when a connection
\* accepted the payload; every connection whose send raised is removed
\* from the registry when the call ends.
C25_ResultAndCleanup ==
    [][WsCallEnds =>
         /\ attempt'.realtime \in {"true", "false"}
         /\ frame.sent_count > 0 => attempt'.realtime = "true"
         /\ \A w \in frame.disconnected :
               \A u \in DOMAIN active_connections' :
                  w \notin active_connections'[u]]_vars

\* C24: in every reachable state of the connection registry no user id maps
\* to an empty connection set, and is_user_connected(u) holds exactly when u
\* has at least one registered connection.
C24_NoEmptyEntry ==
    /\ \A u \in DOMAIN active_connections : active_connections[u] # {}
    /\ \A u \in Users :
          is_user_connected(active_connections, u)
            <=> \E w \in Sockets :
                   u \in DOMAIN active_connections /\ w \in active_connections[u]

\* the value of key in data, when data has the key
HasKey(data, key) == \E i \in DOMAIN data : data[i].key = key
ValueOf(data, key) == data[CHOOSE i \in DOMAIN data : data[i].key = key].value

\* every {key} of the template whose key is in data replaced by data[key],
\* everything else of the template left as it is
RECURSIVE Substituted(_, _)
Substituted(template_str, data) ==
    IF Len(template_str) < 3
      THEN template_str
      ELSE IF /\ template_str[1] = "{"
              /\ template_str[3] = "}"
              /\ HasKey(data, template_str[2])
             THEN ValueOf(data, template_str[2])
                    \o Substituted(SubSeq(template_str, 4, Len(template_str)), data)
             ELSE << template_str[1] >> \o Substituted(Tail(template_str), data)

\* C27: rendering replaces every occurrence of a {key} placeholder whose
\* key is in the data by data[key] and leaves every {key} whose key is
\* absent verbatim; the output is a function of template and data.
C27_RenderSubstitutes ==
    render_call.called =>
        render_call.result = Substituted(render_call.template, render_call.data)

Listed(key) == key \in DOMAIN routing_key_table

\* C28: map_routing_key_to_event_type returns the table's tag for a listed
\* routing key and, for an unlisted key, the key with every letter
\* upper-cased and every "." replaced by "_"; two calls with the same key
\* return the same tag.
C28_TableOrUppercased ==
    \A i \in DOMAIN routing_call.tags :
        LET key == routing_call.keys[i]
            tag == routing_call.tags[i]
        IN  /\ Listed(key) => tag = routing_key_table[key]
            /\ ~Listed(key) =>
                 /\ Len(tag) = Len(key)
                 /\ \A j \in DOMAIN key :
                       tag[j] = IF key[j] = "." THEN "_"
                                ELSE IF key[j] \in DOMAIN upper
                                       THEN upper[key[j]] ELSE key[j]
            /\ \A j \in DOMAIN routing_call.tags :
                  routing_call.keys[j] = key => routing_call.tags[j] = tag

C28_Witness ==
    /\ routing_call.keys = << << "a", ".", "a" >>,
                              << "parking", ".", "spot", ".", "released" >> >>
    /\ routing_call.tags = << << "A", "_", "A" >>, << "SPOT", "_", "RELEASED" >> >>

\* C29: the fallback is lossless: two distinct unlisted routing keys never
\* map to the same tag, and no unlisted key maps to the tag of a listed key.
C29_FallbackInjective ==
    \A i \in DOMAIN routing_call.tags :
        ~Listed(routing_call.keys[i]) =>
            /\ \A j \in DOMAIN routing_call.tags :
                  ( /\ ~Listed(routing_call.keys[j])
                    /\ routing_call.keys[j] # routing_call.keys[i] )
                    => routing_call.tags[j] # routing_call.tags[i]
            /\ \A key \in DOMAIN routing_key_table :
                  routing_call.tags[i] # routing_key_table[key]

\* the i-th normalized body came from the auth service with an integer id
AuthWithInt(i) ==
    /\ starts_with_email(auth_log[i].message.routing_key)
    /\ auth_log[i].message.user_id.kind = "int"

\* C30: auth-event normalization is deterministic in the user id: any two
\* normalizations of auth-service messages carrying the same integer user
\* id yield the same synthetic id, whatever else the messages carry and
\* whatever was normalized in between.
C30_SameIntSameId ==
    \A i, j \in DOMAIN auth_log :
        ( /\ AuthWithInt(i)
          /\ AuthWithInt(j)
          /\ auth_log[i].message.user_id = auth_log[j].message.user_id )
          => auth_log[i].result.user_id = auth_log[j].result.user_id

C30_Witness ==
    /\ Len(auth_log) = 3
    /\ AuthWithInt(1) /\ AuthWithInt(2) /\ AuthWithInt(3)
    /\ auth_log[1].message.user_id = auth_log[3].message.user_id
    /\ auth_log[1].message.email # auth_log[3].message.email
    /\ auth_log[2].message.user_id # auth_log[1].message.user_id
    /\ auth_log[1].result.user_id = uuid5(auth_log[1].message.user_id)

\* a request of kind op is answered in this step; the answer
Answered(op) ==
    /\ response'.n = response.n + 1
    /\ response'.op = op
Answer == response'

\* C31: templates are unique per (event_type, channel) pair: creating a
\* template for (E, c) is rejected if and only if a template for (E, c)
\* already exists, and an accepted one is stored; so (E, push) can be
\* created while (E, email) exists.
C31_UniquePerPair ==
    [][Answered("create_template") =>
         /\ Answer.status # 201
              <=> TemplateRow(Answer.event_type, Answer.notification_type)
                    \in notification_templates
         /\ Answer.status = 201
              => TemplateRow(Answer.event_type, Answer.notification_type)
                   \in notification_templates']_vars

\* the stored rows of user u
RowsOf(rows, u) == {i \in DOMAIN rows : rows[i].user_id = u}

C32_OnePerUser ==
    \A i, j \in DOMAIN user_notification_preferences :
        i # j => user_notification_preferences[i].user_id
                   # user_notification_preferences[j].user_id

C32_CreateRejected ==
    ( /\ Answered("create_user_preferences")
      /\ HasPreferences(user_notification_preferences, Answer.user_id) )
      => /\ Answer.status # 201
         /\ user_notification_preferences' = user_notification_preferences

C32_Upsert ==
    Answered("update_fcm_token") =>
        IF HasPreferences(user_notification_preferences, Answer.user_id)
          THEN /\ DOMAIN user_notification_preferences'
                    = DOMAIN user_notification_preferences
               /\ \A i \in DOMAIN user_notification_preferences :
                     LET old == user_notification_preferences[i]
                         new == user_notification_preferences'[i]
                     IN  IF old.user_id = Answer.user_id
                           THEN /\ new = [old EXCEPT !.fcm_token = new.fcm_token]
                                /\ Answer.status = 200
                                     => new.fcm_token = Answer.fcm_token
                           ELSE new = old
          ELSE /\ Answer.status = 200
               /\ user_notification_preferences' =
                    Append(user_notification_preferences,
                           PreferenceRow(Answer.user_id, Answer.fcm_token, 1, 1))

\* C32: after any sequence of preference operations there is at most one
\* preference record per user id: create on an existing user is rejected
\* and leaves the store unchanged; the token upsert creates a record (email
\* and push enabled) only when none exists and otherwise changes only the
\* stored token.
C32_OneRecordPerUser ==
    /\ []C32_OnePerUser
    /\ [][C32_CreateRejected /\ C32_Upsert]_vars

C32_Witness ==
    /\ response.n = 3
    /\ response.op = "update_fcm_token"
    /\ response.status = 200
    /\ response.user_id = "u1"
    /\ user_notification_preferences =
         << PreferenceRow("u2", "t1", 1, 1), PreferenceRow("u1", "t2", 0, 1) >>

\* C33: after every failed send attempt, whether the sender returned false
\* or threw, error_message holds the detail of that failure: a failure
\* never leaves it empty.
C33_ErrorMessageRecorded ==
    AttemptFailed => notification.error_message # NULL

\* C34: a single invocation of the send protocol applies the failure
\* transition at most once, so retry_count grows by at most one per
\* invocation, also when the commit after the first failure handling raises.
C34_OneFailureTransition ==
    /\ attempt.handled <= 1
    /\ notification.retry_count <= history.attempts

\* the failure transition is applied in this step
FailureTransition == notification'.retry_count = notification.retry_count + 1

\* C36: on a failure that leaves retry_count < max_retries, next_retry_at is
\* the time of the failure plus RETRY_DELAY_SECONDS times the incremented
\* retry_count; on the failure that brings retry_count to max_retries no
\* new next_retry_at is computed.
C36_LinearBackoff ==
    [][FailureTransition =>
         IF notification'.retry_count < notification'.max_retries
           THEN notification'.next_retry_at =
                  now + RETRY_DELAY_SECONDS * notification'.retry_count
           ELSE notification'.next_retry_at = notification.next_retry_at]_vars

C36_Witness ==
    /\ attempt.handled = 1
    /\ notification.status = RETRYING
    /\ notification.retry_count = 1
    /\ notification.next_retry_at = now + RETRY_DELAY_SECONDS

\* C35: an auth-service message that carries an integer user_id and a
\* well-formed email passes NotificationEvent validation after
\* normalization: it is handed to the Orchestrator and acked, not rejected.
C35_AuthEventAccepted ==
    \A i \in DOMAIN auth_log : AuthWithInt(i) => auth_log[i].disposition = "ack"

\* C39: for a routing key that does not start with 'email.', normalization
\* returns the message with every field unchanged and sets event_type to
\* the routing-key-derived tag only when the message has none; a present
\* event_type is never overwritten.
C39_BackfillOnly ==
    \A i \in DOMAIN auth_log :
        LET msg == auth_log[i].message
            res == auth_log[i].result
        IN  ~starts_with_email(msg.routing_key) =>
               /\ res.user_id = msg.user_id
               /\ res.email = msg.email
               /\ res.routing_key = msg.routing_key
               /\ res.event_type =
                    IF msg.event_type = NoEventType
                      THEN << "RESERVATION", "_", "CONFIRMED" >>
                      ELSE msg.event_type

C39_Witness ==
    /\ Len(auth_log) = 2
    /\ auth_log[1].message.routing_key = << "reservation", ".", "confirmed" >>
    /\ auth_log[1].message.event_type = << "CUSTOM" >>
    /\ auth_log[1].result.event_type = << "CUSTOM" >>
    /\ auth_log[2].message.routing_key = << "reservation", ".", "confirmed" >>
    /\ auth_log[2].message.event_type = NoEventType
    /\ auth_log[2].result.event_type = << "RESERVATION", "_", "CONFIRMED" >>

\* the same dict with its items inserted in the opposite order
ReversedItems(data) == [i \in DOMAIN data |-> data[Len(data) + 1 - i]]

\* C37: rendering performs no recursive substitution: a value inserted for
\* one placeholder is never scanned for placeholders, so the output is the
\* same for every iteration order of the data keys.
C37_OrderIndependent ==
    render_call.called =>
        render_call.result =
            replace_placeholders(render_call.template,
                                 ReversedItems(render_call.data))

\* the registrations the registry holds: (user, websocket) pairs
Registered(ac) == {<<u, w>> \in Users \X Sockets : u \in DOMAIN ac /\ w \in ac[u]}

C40_RegisteredOnlyWhileLive ==
    \A w \in Sockets :
        handler[w] = NoUser => \A u \in Users : <<u, w>> \notin Registered(active_connections)

C40_HandlerEndRemoves ==
    \A w \in Sockets :
        (handler[w] # NoUser /\ handler'[w] = NoUser) =>
            /\ \A u \in Users : <<u, w>> \notin Registered(active_connections')
            /\ (<<handler[w], w>> \notin Registered(active_connections)
                  => Registered(active_connections') = Registered(active_connections))
            /\ \A u \in Users \ {handler[w]} :
                  /\ u \in DOMAIN active_connections' <=> u \in DOMAIN active_connections
                  /\ u \in DOMAIN active_connections
                       => active_connections'[u] = active_connections[u]

\* C40: a websocket is registered only between its accepted connect and the
\* end of its endpoint handler: when the handler ends the websocket is in no
\* connection set, and the disconnect of a websocket that a failed send
\* already removed (or whose user has no entry) removes no registration and
\* leaves every other user's entry as it was.
C40_RegisteredWhileHandlerLive ==
    []C40_RegisteredOnlyWhileLive /\ [][C40_HandlerEndRemoves]_vars

\* a send to the user's only websocket failed and removed it while its
\* handler was running; the handler has since ended
C40_Witness ==
    /\ attempt.realtime = "false"
    /\ frame = NoFrame
    /\ \A w \in Sockets : handler[w] = NoUser
    /\ Registered(active_connections) = {}

\* process_event creates at most one Notification per event: event_type is
\* unique in notification_templates, so _get_templates returns at most one
\* row and the send loop of lines 92-94 has at most one iteration
OneNotificationPerEvent == Len(notifications_to_send) <= 1

====
